---- MODULE Spec2Model ----
(***************************************************************************)
(* The deferred mesh -> splat-cloud conversion pipeline of                 *)
(* bevy_gen_gaussian: the main-world Update systems of                     *)
(* src/src/gaussian/mod.rs, the render-world prepare systems and the       *)
(* compute node of src/src/gaussian/gpu_mesh_to_gaussians.rs, run frame    *)
(* after frame.                                                            *)
(***************************************************************************)
EXTENDS Integers, Sequences, FiniteSets, TLC

\* ------------------------------------------------------------------ bounds
MaxFrames == 2
MaxClouds == 2
MaxTriCount == 130
MaxVerts == 4
MaxIndexLen == 7

\* ------------------------------------------------------- program constants
\* gpu_mesh_to_gaussians.rs:293  (cpu.tri_count + 63) / 64
WorkgroupSize == 64

\* mod.rs:179  Indices::U16: an index of the buffer is one of 65536 values
U16Range == 65536

\* ------------------------------------------------------------ the entities
Sources == {"s1", "s2"}
Cameras == {"cam1", "cam2"}
CloudIds == 1..MaxClouds

\* Mesh3d / Assets<Mesh> as seen by process_new_meshes_for_gpu_conversion:
\*   kind   "none"      no descendant carries Mesh3d + GlobalTransform
\*          "unloaded"  a handle was found, meshes.get(handle) is None
\*          "loaded"    the mesh asset is present
\*   attr   the type of Mesh::ATTRIBUTE_POSITION ("Missing" when absent)
\*   verts  number of positions
\*   indexed, idx   whether mesh.indices() is Some, and its length
Mesh(kind, attr, verts, indexed, idx) ==
    [kind |-> kind, attr |-> attr, verts |-> verts, indexed |-> indexed, idx |-> idx]

NoMesh == Mesh("none", "Missing", 0, FALSE, 0)

UnloadedMesh == Mesh("unloaded", "Missing", 0, FALSE, 0)

LoadedMeshes ==
    { Mesh("loaded", "Missing",   0, TRUE,  3),    \* no position attribute
      Mesh("loaded", "Float32x3", 2, FALSE, 0),    \* 2 vertices, no index buffer
      Mesh("loaded", "Float32x3", 3, FALSE, 0),    \* 1 triangle, implicit order
      Mesh("loaded", "Float32x3", 4, TRUE,  6) }   \* 2 triangles, indexed

MeshChoices == {NoMesh, UnloadedMesh} \cup LoadedMeshes

\* MeshToGaussian { hide_source_mesh, realtime } (mode and thickness are not read)
MeshToGaussian(realtime, hide_source_mesh) ==
    [realtime |-> realtime, hide_source_mesh |-> hide_source_mesh]

\* The configurations the sources are spawned with: s2 always with
\* MeshToGaussian::default() (realtime false, hide_source_mesh true).
ConfigChoices ==
    { [s \in Sources |-> IF s = "s1" THEN c1 ELSE MeshToGaussian(FALSE, TRUE)] :
        c1 \in { MeshToGaussian(TRUE, FALSE), MeshToGaussian(FALSE, TRUE) } }

\* An absent component is a record with present = FALSE.
NoParams == [present |-> FALSE, gaussian_count |-> 0]

TriToSplatParams(gaussian_count) == [present |-> TRUE, gaussian_count |-> gaussian_count]

BindGroup(entity, n) == [entity |-> entity, n |-> n]

NoGpu == [present |-> FALSE, bind_group_inputs |-> BindGroup(0, 0), workgroups |-> << 0, 0, 0 >>]

TriToSplatGpu(bind_group_inputs, workgroups) ==
    [present |-> TRUE, bind_group_inputs |-> bind_group_inputs, workgroups |-> workgroups]

NoCloud == [handle |-> 0, cloudOf |-> "", positions |-> 0, indices |-> 0, tri_count |-> 0]

\* ------------------------------------------------- the contents of a mesh
\* The arrays process_new_meshes_for_gpu_conversion reads from a loaded mesh
\* with Float32x3 positions: pos (vertex k, counted from 0, is pos[k + 1]) and
\* mesh.indices(): None, Some(Indices::U16(xs)) or Some(Indices::U32(xs)).
\* Nothing validates an index against the vertex count.
SeqsUpTo(S, n) == UNION { [1..l -> S] : l \in 0..n }

IndexValues == {0, 2, U16Range - 1}

Indices(kind, xs) == [kind |-> kind, xs |-> xs]

\* Two triangles sharing an edge, over 4 vertices.
QuadIndices == << 0, 1, 2, 2, 1, 3 >>

IndicesChoices ==
    { Indices("None", << >>) }
        \cup { Indices(k, xs) : k \in {"U16", "U32"}, xs \in SeqsUpTo(IndexValues, MaxIndexLen) }
        \cup { Indices(k, QuadIndices) : k \in {"U16", "U32"} }

\* vertex k of every mesh lies at (k, k * k, 1): no three on a line
MeshPositions(vertex_count) ==
    [k \in 1..vertex_count |-> << k - 1, (k - 1) * (k - 1), 1 >>]

\* A coordinate triple num / den (the centroid divides by 3.0).
Vec3(num, den) == [num |-> num, den |-> den]

zero_pv == [position |-> Vec3(<< 0, 0, 0 >>, 1), visibility |-> 0]

zero_sh == [coefficients |-> 0]

zero_rot == [rotation |-> << 0, 0, 0, 0 >>]

zero_so == [scale |-> << 0, 0, 0 >>, opacity |-> 0]

PlanarGaussian3d(pv, sh, rot, so) ==
    [position_visibility |-> pv, spherical_harmonic |-> sh, rotation |-> rot,
     scale_opacity |-> so]

NoCpuInput == [present |-> FALSE, positions |-> << >>, indices |-> << >>, tri_count |-> 0]

TriToSplatCpuInput(positions, indices, tri_count) ==
    [present |-> TRUE, positions |-> positions, indices |-> indices, tri_count |-> tri_count]

\* The locals of one iteration of the loop, at the start of the iteration
\* ("idle": no iteration is being followed).
ConvAt(pc, pos, mesh_indices) ==
    [pc |-> pc, pos |-> pos, mesh_indices |-> mesh_indices,
     positions |-> << >>, indices |-> << >>, tri_count |-> 0,
     cloud_asset |-> PlanarGaussian3d(<< >>, << >>, << >>, << >>),
     i |-> 0, input |-> NoCpuInput]

ConvIdle == ConvAt("idle", << >>, Indices("None", << >>))

VARIABLES
    frame,          \* number of the frame being run
    phase,          \* "startup" | "main" | "assets" | "render"
    \* ---- main world
    config,         \* source -> MeshToGaussian
    mesh,           \* source -> the mesh its hierarchy currently resolves to
    converted,      \* source -> carries ConvertedOnce
    visibility,     \* source -> "Visible" | "Hidden"
    cloudLink,      \* source -> 0, or the handle held by MeshToGaussianCloud
    assets,         \* Assets<PlanarGaussian3d>: handle h is assets[h]
    clouds,         \* the spawned cloud entities: entity c is clouds[c]
    cameras,        \* the Camera3d entities
    params,         \* camera -> NoParams, or its TriToSplatParams
    updateDone,     \* Update systems that ran this frame
    mainCmds,       \* main-world Commands queued and not yet applied
    \* ---- render world
    extracted,      \* cloud entities present in the render world
    viewParams,     \* camera -> extracted TriToSplatParams (NoParams if none)
    storageReady,   \* clouds whose PlanarStorageGaussian3d render asset exists
    pipe,           \* the TriToSplatPipeline resource and what it queued
    pipelineState,  \* "Unqueued" | "Uncompiled" | "Compiling" | "Ready"
    uniformReady,   \* ComponentUniforms<TriToSplatParams> has a binding
    rwBinding,      \* cloud -> 0, or the n-th storage bind group created for it
    gpu,            \* cloud -> NoGpu, or its TriToSplatGpu
    uploads,        \* cloud -> number of inputs uploads (buffers + bind group)
    jobs,           \* TriToSplatJobQueue.jobs
    frameLog,       \* render systems / node runs of this frame, in order
    nodeResult,     \* camera -> what TriToSplatNode::run did for this view
    \* ---- the loop body of process_new_meshes_for_gpu_conversion, step by step
    conv,           \* the locals of one iteration over one mesh (SpecConv)
    \* ---- the CPU helpers, one call followed step by step
    call,           \* the arguments, locals and result of the call (SpecCpu)
    \* ---- the voxel plugin
    voxel           \* its resources: VoxelWorld, EditBatch, Metrics, SurfaceBuffer

vars == << frame, phase, config, mesh, converted, visibility, cloudLink, assets,
           clouds, cameras, params, updateDone, mainCmds, extracted, viewParams,
           storageReady, pipe, pipelineState, uniformReady, rwBinding, gpu,
           uploads, jobs, frameLog, nodeResult, conv, call, voxel >>

mainVars == << config, mesh, converted, visibility, cloudLink, assets, clouds,
               cameras, params, updateDone, mainCmds >>

renderVars == << extracted, viewParams, storageReady, pipe, pipelineState, uniformReady,
                 rwBinding, gpu, uploads, jobs, frameLog, nodeResult >>

\* ----------------------------------------------------------------- helpers
\* Every order in which a query may iterate the entities of S.
Orders(S) ==
    { f \in [1..Cardinality(S) -> S] : \A i, j \in DOMAIN f : f[i] = f[j] => i = j }

Max(a, b) == IF a >= b THEN a ELSE b

\* No dynamic offset bound: the node did not reach set_bind_group(1, ..).
NoIndex == [bound |-> FALSE, index |-> 0]

NotRun == [status |-> "pending", bind_groups |-> 0, passes |-> 0, params_ix |-> NoIndex,
           dispatches |-> << >>]

\* ------------------------------------------------------- the voxel chunk
\* voxel.rs:34  const CHUNK_SIZE: usize = 32
ChunkSize == 32

IVec3(x, y, z) == [x |-> x, y |-> y, z |-> z]

VoxelData(material, normal_index) == [material |-> material, normal_index |-> normal_index]

\* Option<usize> / Option<VoxelData>
None == [some |-> FALSE]

Some(v) == [some |-> TRUE, v |-> v]

\* VoxelChunkSimple::new(): every element of data is None. A chunk is its
\* data, as the function from the indices that hold Some to their VoxelData.
VoxelChunkSimple_new == [i \in {} |-> VoxelData(0, 0)]

pos_to_index_NoUpperBound(p) ==
    IF p.x < 0 \/ p.y < 0 \/ p.z < 0
    THEN None
    ELSE Some((p.z * ChunkSize * ChunkSize) + (p.y * ChunkSize) + p.x)

pos_to_index(p) ==
    IF p.x < 0 \/ p.y < 0 \/ p.z < 0
       \/ p.x >= ChunkSize \/ p.y >= ChunkSize \/ p.z >= ChunkSize
    THEN None
    ELSE Some((p.z * ChunkSize * ChunkSize) + (p.y * ChunkSize) + p.x)

\* self.data[index] = Some(v)
Store(data, index, v) ==
    [i \in (DOMAIN data) \cup {index} |-> IF i = index THEN v ELSE data[i]]

\* self.data[index] = None
Erase(data, index) == [i \in (DOMAIN data) \ {index} |-> data[i]]

chunk_set(data, p, material) ==
    IF pos_to_index(p).some THEN Store(data, pos_to_index(p).v, VoxelData(material, 0))
    ELSE data

chunk_set_with_normal(data, p, material, normal_index) ==
    IF pos_to_index(p).some
    THEN Store(data, pos_to_index(p).v, VoxelData(material, normal_index))
    ELSE data

chunk_clear(data, p) ==
    IF pos_to_index(p).some THEN Erase(data, pos_to_index(p).v) ELSE data

chunk_get(data, p) ==
    IF pos_to_index(p).some /\ pos_to_index(p).v \in DOMAIN data
    THEN Some(data[pos_to_index(p).v])
    ELSE None

chunk_is_set(data, p) == chunk_get(data, p).some

\* The position iter() makes of an index.
IndexToPos_Transposed(index) ==
    IVec3(index \div (ChunkSize * ChunkSize), (index \div ChunkSize) % ChunkSize,
          index % ChunkSize)

IndexToPos(index) ==
    IVec3(index % ChunkSize, (index \div ChunkSize) % ChunkSize,
          index \div (ChunkSize * ChunkSize))

\* data.iter().enumerate().filter_map(..): the set elements by rising index
RECURSIVE IterOver(_, _)
IterOver(data, is) ==
    IF is = {} THEN << >>
    ELSE LET index == CHOOSE i \in is : \A j \in is : i <= j
         IN  << << IndexToPos(index), data[index] >> >> \o IterOver(data, is \ {index})

chunk_iter(data) == IterOver(data, DOMAIN data)

\* self.data.iter().filter(|d| d.is_some()).count()
chunk_count(data) == Cardinality(DOMAIN data)

\* ------------------------------------------------------ the voxel plugin
EditOp_Set(p) == [op |-> "Set", p |-> p]

EditOp_Clear(p) == [op |-> "Clear", p |-> p]

\* The positions the edits of the model name: two corners of the chunk and
\* one position past the end of an axis.
EditPositions == { IVec3(0, 0, 0), IVec3(31, 31, 31), IVec3(32, 0, 0) }

EditOps == { EditOp_Set(p) : p \in EditPositions } \cup { EditOp_Clear(p) : p \in EditPositions }

\* Vec3::new(x as f32 + 0.5, ..): a Vec3 is kept in halves, so that the
\* centre of the voxel at x is 2x + 1.
BillboardInstance(position) ==
    [pos |-> [x2 |-> (2 * position.x) + 1, y2 |-> (2 * position.y) + 1,
              z2 |-> (2 * position.z) + 1]]

VoxelSystems == { "apply_edits", "extract_surface", "manage_billboard_instances",
                  "flush_metrics" }

\* init_resource of Metrics, EditBatch, VoxelWorld and SurfaceBuffer, and the
\* application's insert_resource(LastInstanceCount::default()). ran is the
\* systems of the Update chain that have run in the frame, drained the
\* operations the last apply_edits took out of the batch, billboards the
\* translations of the VoxelBillboardMarker entities.
VoxelPlugin_build ==
    [ world               |-> [chunk |-> VoxelChunkSimple_new, dirty |-> FALSE],
      batch               |-> << >>,
      metrics             |-> [voxel_count |-> 0, instance_count |-> 0, edits_applied |-> 0],
      surface             |-> [instances |-> << >>, dirty |-> FALSE],
      last_instance_count |-> 0,
      billboards          |-> << >>,
      drained             |-> << >>,
      ran                 |-> {},
      frame               |-> 0 ]

\* for op in batch.ops.drain(..) { match op { Set(p) => chunk.set(p, 1), Clear(p) => chunk.clear(p) } }
RECURSIVE ApplyOps_Backwards(_, _)
ApplyOps_Backwards(data, ops) ==
    IF ops = << >> THEN data
    ELSE LET op == ops[Len(ops)]
         IN  ApplyOps_Backwards(IF op.op = "Set" THEN chunk_set(data, op.p, 1)
                                ELSE chunk_clear(data, op.p),
                                SubSeq(ops, 1, Len(ops) - 1))

RECURSIVE ApplyOps(_, _)
ApplyOps(data, ops) ==
    IF ops = << >> THEN data
    ELSE ApplyOps(IF Head(ops).op = "Set" THEN chunk_set(data, Head(ops).p, 1)
                  ELSE chunk_clear(data, Head(ops).p),
                  Tail(ops))

ApplyEdits_NoEarlyReturn(v) ==
    [v EXCEPT !.world = [chunk |-> ApplyOps(v.world.chunk, v.batch), dirty |-> TRUE],
              !.batch = << >>,
              !.drained = v.batch,
              !.metrics.edits_applied = @ + Len(v.batch)]

ApplyEdits(v) ==
    IF v.batch = << >> THEN [v EXCEPT !.drained = << >>]
    ELSE [v EXCEPT !.world = [chunk |-> ApplyOps(v.world.chunk, v.batch), dirty |-> TRUE],
                   !.batch = << >>,
                   !.drained = v.batch,
                   !.metrics.edits_applied = @ + Len(v.batch)]

\* instances.extend(chunk.iter().map(..)) after instances.clear()
InstancesOf(items) == [i \in 1..Len(items) |-> BillboardInstance(items[i][1])]

ExtractSurface_NoClear(v) ==
    IF ~v.world.dirty THEN v
    ELSE LET instances == v.surface.instances \o InstancesOf(chunk_iter(v.world.chunk))
         IN  [v EXCEPT !.surface = [instances |-> instances, dirty |-> TRUE],
                       !.world.dirty = FALSE,
                       !.metrics.instance_count = Len(instances),
                       !.last_instance_count = Len(instances)]

ExtractSurface(v) ==
    IF ~v.world.dirty THEN v
    ELSE LET instances == InstancesOf(chunk_iter(v.world.chunk))
         IN  [v EXCEPT !.surface = [instances |-> instances, dirty |-> TRUE],
                       !.world.dirty = FALSE,
                       !.metrics.instance_count = Len(instances),
                       !.last_instance_count = Len(instances)]

\* The despawns and spawns are Commands; nothing reads the marker entities
\* before the Commands of Update are applied, so they take effect here.
ManageBillboardInstances(v) ==
    IF ~v.surface.dirty THEN v
    ELSE [v EXCEPT !.billboards = [i \in 1..Len(v.surface.instances) |->
                                      v.surface.instances[i].pos],
                   !.surface.dirty = FALSE]

FlushMetrics(v) == [v EXCEPT !.metrics.voxel_count = chunk_count(v.world.chunk)]

SystemRan(v, system) == [v EXCEPT !.ran = @ \cup {system}]

\* ------------------------------------------------ the compute pipeline
\* The fields of TriToSplatParams in declaration order: the size of each, its
\* alignment in a uniform buffer (derive ShaderType) and its alignment as a
\* Rust value (glam's Vec3 is three f32; the SIMD Vec3A is not used here).
ParamsField(name, size, align, rust_align) ==
    [name |-> name, size |-> size, align |-> align, rust_align |-> rust_align]

ParamsFields_NoPad ==
    << ParamsField("gaussian_count", 4, 4, 4),
       ParamsField("elapsed_seconds", 4, 4, 4),
       ParamsField("duration_seconds", 4, 4, 4),
       ParamsField("sphere_center", 12, 16, 4),
       ParamsField("sphere_radius", 4, 4, 4) >>

ParamsFields ==
    << ParamsField("gaussian_count", 4, 4, 4),
       ParamsField("elapsed_seconds", 4, 4, 4),
       ParamsField("duration_seconds", 4, 4, 4),
       ParamsField("_pad", 4, 4, 4),
       ParamsField("sphere_center", 12, 16, 4),
       ParamsField("sphere_radius", 4, 4, 4) >>

RoundUp(n, a) == ((n + a - 1) \div a) * a

\* The offset of field k when the fields are laid out in order, each at the
\* next multiple of its alignment; k = Len(fields) + 1 gives the end.
RECURSIVE OffsetIn(_, _, _)
OffsetIn(fields, k, uniform) ==
    IF k = 1 THEN 0
    ELSE LET prev == OffsetIn(fields, k - 1, uniform) + fields[k - 1].size
         IN  IF k > Len(fields) THEN prev
             ELSE RoundUp(prev, IF uniform THEN fields[k].align
                                ELSE fields[k].rust_align)

RECURSIVE MaxAlign(_, _, _)
MaxAlign(fields, k, uniform) ==
    IF k > Len(fields) THEN 1
    ELSE Max(IF uniform THEN fields[k].align ELSE fields[k].rust_align,
             MaxAlign(fields, k + 1, uniform))

\* <TriToSplatParams as ShaderType>: the size of the struct in the uniform
\* buffer, its end rounded up to the largest alignment of its fields.
UniformSize(fields) ==
    RoundUp(OffsetIn(fields, Len(fields) + 1, TRUE), MaxAlign(fields, 1, TRUE))

\* std::mem::size_of::<TriToSplatParams>()
SizeOf(fields) ==
    RoundUp(OffsetIn(fields, Len(fields) + 1, FALSE), MaxAlign(fields, 1, FALSE))

NoPipeline ==
    [present |-> FALSE, pipeline |-> 0, inputs_layout |-> "none",
     params_layout |-> [has_dynamic_offset |-> FALSE, min_binding_size |-> 0],
     planar_rw_layout |-> "none", queued |-> 0]

TriToSplatPipeline_from_world_NoQueue(p) ==
    [present |-> TRUE,
     pipeline |-> p.queued,
     inputs_layout |-> "tri_to_splat.inputs_layout",
     params_layout |-> [has_dynamic_offset |-> TRUE,
                        min_binding_size |-> SizeOf(ParamsFields)],
     planar_rw_layout |-> "storage_gaussian_3d_rw_layout",
     queued |-> p.queued]

\* Creates the three layouts and queues the compute pipeline in the
\* PipelineCache; p.queued counts the pipelines queued so far, and the id of
\* the new one is its number.
TriToSplatPipeline_from_world(p) ==
    [present |-> TRUE,
     pipeline |-> p.queued + 1,
     inputs_layout |-> "tri_to_splat.inputs_layout",
     params_layout |-> [has_dynamic_offset |-> TRUE,
                        min_binding_size |-> SizeOf(ParamsFields)],
     planar_rw_layout |-> "storage_gaussian_3d_rw_layout",
     queued |-> p.queued + 1]

\* init_resource::<TriToSplatPipeline>(): from_world runs only if the resource
\* is not there yet.
init_resource(p) == IF p.present THEN p ELSE TriToSplatPipeline_from_world(p)

\* No call of a CPU helper in progress.
CpuIdle == [fn |-> "none"]

\* ------------------------------------------------------------ initial state
\* After App construction: plugins built and finished (the pipeline is queued
\* by TriToSplatPlugin::finish), sources and cameras spawned by the user, no
\* frame run yet.
InitPipeline ==
    /\ frame = 1
    /\ phase = "main"
    /\ config \in ConfigChoices
    /\ mesh = [s \in Sources |-> NoMesh]
    /\ converted = [s \in Sources |-> FALSE]
    /\ visibility = [s \in Sources |-> "Visible"]
    /\ cloudLink = [s \in Sources |-> 0]
    /\ assets = << >>
    /\ clouds = << >>
    /\ cameras = Cameras
    /\ params = [c \in Cameras |-> IF c = "cam1" THEN TriToSplatParams(1) ELSE NoParams]
    /\ updateDone = {}
    /\ mainCmds = << >>
    /\ extracted = {}
    /\ viewParams = [c \in Cameras |-> NoParams]
    /\ storageReady = {}
    /\ pipe = TriToSplatPipeline_from_world(NoPipeline)
    /\ pipelineState = "Uncompiled"
    /\ uniformReady = FALSE
    /\ voxel = VoxelPlugin_build
    /\ rwBinding = [c \in CloudIds |-> 0]
    /\ gpu = [c \in CloudIds |-> NoGpu]
    /\ uploads = [c \in CloudIds |-> 0]
    /\ jobs = << >>
    /\ frameLog = << >>
    /\ nodeResult = [c \in Cameras |-> NotRun]

Init ==
    /\ InitPipeline
    /\ conv = ConvIdle
    /\ call = CpuIdle

\* ------------------------------------------------------ main world: assets
\* The asset server / scene graph changes what a source's hierarchy resolves
\* to. process_new_meshes_for_gpu_conversion is the only reader, once per
\* frame, so a change is taken at the start of a frame, before the Update
\* systems; one source changes per frame.
MeshBecomes(s, m) ==
    /\ phase = "main"
    /\ updateDone = {}
    /\ mainCmds = << >>
    /\ m # mesh[s]
    /\ mesh' = [mesh EXCEPT ![s] = m]
    /\ updateDone' = {"assets"}
    /\ UNCHANGED << frame, phase, config, converted, visibility, cloudLink, assets,
                    clouds, cameras, params, mainCmds >>
    /\ UNCHANGED renderVars
    /\ UNCHANGED << conv, call, voxel >>

\* ------------------------------- process_new_meshes_for_gpu_conversion
\* source_q: Query<(Entity, &MeshToGaussian), Without<ConvertedOnce>>
SourceQuery_All == Sources

SourceQuery == { s \in Sources : ~converted[s] }

\* let Some(VertexAttributeValues::Float32x3(pos)) = mesh.attribute(POSITION)
PositionsOk_Any(m) == TRUE

PositionsOk(m) == m.attr = "Float32x3"

\* indices: the index buffer, or 0..positions.len() when there is none
IndicesLen(m) == IF m.indexed THEN m.idx ELSE m.verts

\* let tri_count = (indices.len() / 3) as u32;
TriCountOfLen_Ceil(indices_len) == (indices_len + 2) \div 3

TriCountOfLen(indices_len) == indices_len \div 3

TriCount(m) == TriCountOfLen(IndicesLen(m))

\* if tri_count == 0 { ...; continue; }
EmptyTriangleList_Never(tri_count) == FALSE

EmptyTriangleList(tri_count) == tri_count = 0

\* A queued Command: an insert on `target` (num: the handle or gaussian_count
\* inserted), or the spawn of `cloud`.
Cmd(op, target, num, cloud) == [op |-> op, target |-> target, num |-> num, cloud |-> cloud]

\* `else { continue; }` for a source without a descendant mesh, or whose mesh
\* asset is not loaded: nothing is queued, nothing is marked.
SkipUnready_Marked(st, s) == [st EXCEPT !.cmds = Append(@, Cmd("ConvertedOnce", s, 0, NoCloud))]

SkipUnready(st, s) == st

\* The body of the `for (source_entity, config) in &source_q` loop for source s.
\* st carries what the loop mutates: the assets (clouds.add is immediate), the
\* visibilities (immediate), and the queued Commands (deferred).
ProcessSource(st, s) ==
    LET m == mesh[s]
        cfg == config[s]
        skipMalformed ==
            IF ~cfg.realtime
            THEN [st EXCEPT !.cmds = Append(@, Cmd("ConvertedOnce", s, 0, NoCloud))]
            ELSE st
    IN  IF m.kind = "none" THEN SkipUnready(st, s)
        ELSE IF m.kind = "unloaded" THEN SkipUnready(st, s)
        ELSE IF ~PositionsOk(m) THEN skipMalformed
        ELSE IF EmptyTriangleList(TriCount(m)) THEN skipMalformed
        ELSE
            LET tri_count == TriCount(m)
                cloud_asset == [position_visibility |-> tri_count,
                                spherical_harmonic  |-> tri_count,
                                rotation            |-> tri_count,
                                scale_opacity       |-> tri_count]
                cloud_handle == Len(st.assets) + 1
                spawn == Cmd("spawn", s, 0,
                             [handle    |-> cloud_handle,
                              cloudOf   |-> s,
                              positions |-> m.verts,
                              indices   |-> IndicesLen(m),
                              tri_count |-> tri_count])
                link == Cmd("MeshToGaussianCloud", s, cloud_handle, NoCloud)
                mark == Cmd("ConvertedOnce", s, 0, NoCloud)
            IN  [assets     |-> Append(st.assets, cloud_asset),
                 visibility |-> IF cfg.hide_source_mesh
                                THEN [st.visibility EXCEPT ![s] = "Hidden"]
                                ELSE st.visibility,
                 cmds       |-> IF ~cfg.realtime
                                THEN st.cmds \o << spawn, link, mark >>
                                ELSE st.cmds \o << spawn, link >>]

\* The loop `continue`s after a source it skips.
RECURSIVE ProcessSources_ReturnOnSkip(_, _, _)
ProcessSources_ReturnOnSkip(order, i, st) ==
    IF i > Len(order) THEN st
    ELSE LET next == ProcessSource(st, order[i])
         IN  IF Len(next.assets) = Len(st.assets) THEN next
             ELSE ProcessSources_ReturnOnSkip(order, i + 1, next)

RECURSIVE ProcessSources(_, _, _)
ProcessSources(order, i, st) ==
    IF i > Len(order) THEN st
    ELSE ProcessSources(order, i + 1, ProcessSource(st, order[i]))

SpawnsQueued(cmds) == Cardinality({ i \in DOMAIN cmds : cmds[i].op = "spawn" })

process_new_meshes_for_gpu_conversion ==
    /\ phase = "main"
    /\ "process" \notin updateDone
    /\ \E order \in Orders(SourceQuery) :
        LET st == ProcessSources(order, 1,
                    [assets |-> assets, visibility |-> visibility, cmds |-> mainCmds])
        IN  /\ Len(clouds) + SpawnsQueued(st.cmds) <= MaxClouds
            /\ assets' = st.assets
            /\ visibility' = st.visibility
            /\ mainCmds' = st.cmds
    /\ updateDone' = updateDone \cup {"process"}
    /\ UNCHANGED << frame, phase, config, mesh, converted, cloudLink, clouds,
                    cameras, params >>
    /\ UNCHANGED renderVars
    /\ UNCHANGED << conv, call, voxel >>

\* ------------------------------------------------ update_tri_to_splat_params
RECURSIVE MaxTriOver(_, _)
MaxTriOver(cs, i) ==
    IF i > Len(cs) THEN 0 ELSE Max(cs[i].tri_count, MaxTriOver(cs, i + 1))

RECURSIVE ParamCmds(_, _)
ParamCmds(cams, max_gauss) ==
    IF cams = {} THEN << >>
    ELSE LET cam == CHOOSE c \in cams : TRUE
         IN  << Cmd("TriToSplatParams", cam, max_gauss, NoCloud) >>
                \o ParamCmds(cams \ {cam}, max_gauss)

update_tri_to_splat_params ==
    /\ phase = "main"
    /\ "params" \notin updateDone
    /\ LET max_gauss == MaxTriOver(clouds, 1)
       IN  mainCmds' = IF max_gauss = 0 THEN mainCmds
                       ELSE mainCmds \o ParamCmds(cameras, max_gauss)
    /\ updateDone' = updateDone \cup {"params"}
    /\ UNCHANGED << frame, phase, config, mesh, converted, visibility, cloudLink,
                    assets, clouds, cameras, params >>
    /\ UNCHANGED renderVars
    /\ UNCHANGED << conv, call, voxel >>

\* ----------------------------------------------------- applying Commands
ApplyCmd(w, cmd) ==
    IF cmd.op = "spawn" THEN [w EXCEPT !.clouds = Append(@, cmd.cloud)]
    ELSE IF cmd.op = "MeshToGaussianCloud" THEN [w EXCEPT !.cloudLink[cmd.target] = cmd.num]
    ELSE IF cmd.op = "ConvertedOnce" THEN [w EXCEPT !.converted[cmd.target] = TRUE]
    ELSE [w EXCEPT !.params[cmd.target] = TriToSplatParams(cmd.num)]

RECURSIVE ApplyCmds(_, _, _)
ApplyCmds(cmds, i, w) ==
    IF i > Len(cmds) THEN w ELSE ApplyCmds(cmds, i + 1, ApplyCmd(w, cmds[i]))

\* A sync point of the Update schedule, or its end: the queued Commands are
\* applied in the order they were issued.
ApplyDeferredMain ==
    /\ phase = "main"
    /\ mainCmds # << >>
    /\ LET w == ApplyCmds(mainCmds, 1,
                  [clouds |-> clouds, cloudLink |-> cloudLink,
                   converted |-> converted, params |-> params])
       IN  /\ clouds' = w.clouds
           /\ cloudLink' = w.cloudLink
           /\ converted' = w.converted
           /\ params' = w.params
    /\ mainCmds' = << >>
    /\ UNCHANGED << frame, phase, config, mesh, visibility, assets, cameras,
                    updateDone >>
    /\ UNCHANGED renderVars
    /\ UNCHANGED << conv, call, voxel >>

\* ---------------------------------------------------------------- extraction
\* ExtractSchedule, after the Update schedule finished (all Commands applied):
\* ExtractComponentPlugin<TriToSplatCpuInput> and <TriToSplatParams> copy the
\* components to the render world; render entities and the components the
\* render systems inserted on them are retained from frame to frame.
Extract ==
    /\ phase = "main"
    /\ {"process", "params"} \subseteq updateDone
    /\ mainCmds = << >>
    /\ phase' = "assets"
    /\ extracted' = 1..Len(clouds)
    /\ viewParams' = [c \in Cameras |-> IF c \in cameras THEN params[c] ELSE NoParams]
    /\ UNCHANGED << frame, storageReady, pipe, pipelineState, uniformReady, rwBinding, gpu,
                    uploads, jobs, frameLog, nodeResult >>
    /\ UNCHANGED mainVars
    /\ UNCHANGED << conv, call, voxel >>

\* PipelineState: Uncompiled -> Compiling -> Ready, driven by the pipeline cache.
PipelineSteps(st) ==
    IF st = "Uncompiled" THEN {"Uncompiled", "Compiling"}
    ELSE IF st = "Compiling" THEN {"Compiling", "Ready"}
    ELSE {"Ready"}

Views == { c \in Cameras : viewParams[c].present }

\* What the collaborators make ready before RenderSet::PrepareBindGroups: the
\* storage provider instantiates some clouds' GPU storage (gpu_clouds.get
\* becomes Some), the pipeline cache advances, the uniform buffer of the
\* per-view params gets written once there is a view to write.
PrepareAssets ==
    /\ phase = "assets"
    /\ phase' = "render"
    /\ \E ready \in SUBSET (extracted \ storageReady) :
            storageReady' = storageReady \cup ready
    /\ pipelineState' \in PipelineSteps(pipelineState)
    /\ UNCHANGED pipe
    /\ uniformReady' \in (IF uniformReady THEN {TRUE}
                          ELSE IF Views # {} THEN {FALSE, TRUE} ELSE {FALSE})
    /\ UNCHANGED << frame, extracted, viewParams, rwBinding, gpu, uploads, jobs,
                    frameLog, nodeResult >>
    /\ UNCHANGED mainVars
    /\ UNCHANGED << conv, call, voxel >>

\* ------------------------------------------------ the Render schedule order
RenderSystems == {"clear", "planar", "inputs", "requeue"}

\* TriToSplatPlugin::build: clear .before(planar), inputs .after(planar),
\* requeue .after(inputs), all in RenderSet::PrepareBindGroups.
RenderOrder_NoClearEdge ==
    { << "planar", "inputs" >>, << "inputs", "requeue" >> }

RenderOrder ==
    { << "clear", "planar" >>, << "planar", "inputs" >>, << "inputs", "requeue" >> }

Ran(sys) == \E i \in DOMAIN frameLog : frameLog[i] = sys

CanRun(sys) ==
    /\ phase = "render"
    /\ ~Ran(sys)
    /\ \A e \in RenderOrder : e[2] = sys => Ran(e[1])

\* --------------------------------------------------- clear_tri_to_splat_jobs
\* job_queue.jobs.clear()
Cleared_Kept(queue) == queue

Cleared(queue) == << >>

clear_tri_to_splat_jobs ==
    /\ CanRun("clear")
    /\ jobs' = IF jobs # << >> THEN Cleared(jobs) ELSE jobs
    /\ frameLog' = Append(frameLog, "clear")
    /\ UNCHANGED << frame, phase, extracted, viewParams, storageReady, pipe, pipelineState,
                    uniformReady, rwBinding, gpu, uploads, nodeResult >>
    /\ UNCHANGED mainVars
    /\ UNCHANGED << conv, call, voxel >>

\* ------------------------------------------ queue_planar_cloud_rw_bind_group
\* q: Query<(Entity, &PlanarGaussian3dHandle)>; gpu_clouds.get(&handle.0)
PlanarQuery == extracted

\* The entries of "storage_gaussian_3d_bind_group_rw", by binding number.
StorageBindGroupEntries ==
    << "position_visibility", "spherical_harmonic", "rotation", "scale_opacity" >>

\* let Some(storage) = gpu_clouds.get(&handle.0) else { continue; }
GpuCloudsGet_Always(c) == TRUE

GpuCloudsGet(c) == c \in storageReady

\* One bind group is created for, and inserted on, every entity of the query
\* whose storage exists; the insert replaces a PlanarStorageBindGroupRw the
\* entity already carries. The Commands are applied at the sync point before
\* queue_tri_to_splat_inputs.
queue_planar_cloud_rw_bind_group ==
    /\ CanRun("planar")
    /\ rwBinding' = [c \in CloudIds |->
                        IF c \in PlanarQuery /\ GpuCloudsGet(c)
                        THEN rwBinding[c] + 1
                        ELSE rwBinding[c]]
    /\ frameLog' = Append(frameLog, "planar")
    /\ UNCHANGED << frame, phase, extracted, viewParams, storageReady, pipe, pipelineState,
                    uniformReady, gpu, uploads, jobs, nodeResult >>
    /\ UNCHANGED mainVars
    /\ UNCHANGED << conv, call, voxel >>

\* ------------------------------------------------- queue_tri_to_splat_inputs
\* let x = (cpu.tri_count + 63) / 64;  UVec3::new(x.max(1), 1, 1)
Workgroups_Floor(tri_count) == << Max(tri_count \div WorkgroupSize, 1), 1, 1 >>

Workgroups(tri_count) ==
    << Max((tri_count + (WorkgroupSize - 1)) \div WorkgroupSize, 1), 1, 1 >>

Job(inputs_bg, planar_rw_bg, workgroups) ==
    [inputs_bg |-> inputs_bg, planar_rw_bg |-> planar_rw_bg, workgroups |-> workgroups]

\* q: Query<(Entity, &PlanarStorageBindGroupRw, &TriToSplatCpuInput)>
InputsQuery_NoStorageBinding == extracted

InputsQuery == { c \in extracted : rwBinding[c] # 0 }

\* existing_gpu: Query<(), With<TriToSplatGpu>>
ExistingGpu_Empty == {}

ExistingGpu == { c \in extracted : gpu[c].present }

\* The loop body for entity c. st carries the job queue (pushed immediately),
\* the upload counters, and the TriToSplatGpu inserts (Commands, applied at the
\* sync point before requeue_existing_tri_to_splat_jobs; existing_gpu reads
\* the components as they were when the system started).
QueueInputsFor(st, c) ==
    IF c \in ExistingGpu THEN st
    ELSE
        LET cpu == clouds[c]
            bind_group_inputs == BindGroup(c, st.uploads[c] + 1)
            workgroups == Workgroups(cpu.tri_count)
        IN  [jobs    |-> Append(st.jobs,
                                Job(bind_group_inputs, BindGroup(c, rwBinding[c]), workgroups)),
             uploads |-> [st.uploads EXCEPT ![c] = @ + 1],
             gpu     |-> [st.gpu EXCEPT ![c] =
                            TriToSplatGpu(bind_group_inputs, workgroups)]]

\* The loop serves every entity of the query.
QueueInputsLoop_FirstOnly(order, i, st) ==
    IF Len(order) = 0 THEN st ELSE QueueInputsFor(st, order[1])

RECURSIVE QueueInputsLoop(_, _, _)
QueueInputsLoop(order, i, st) ==
    IF i > Len(order) THEN st
    ELSE QueueInputsLoop(order, i + 1, QueueInputsFor(st, order[i]))

queue_tri_to_splat_inputs ==
    /\ CanRun("inputs")
    /\ \E order \in Orders(InputsQuery) :
        LET st == QueueInputsLoop(order, 1,
                    [jobs |-> jobs, uploads |-> uploads, gpu |-> gpu])
        IN  /\ jobs' = st.jobs
            /\ uploads' = st.uploads
            /\ gpu' = st.gpu
    /\ frameLog' = Append(frameLog, "inputs")
    /\ UNCHANGED << frame, phase, extracted, viewParams, storageReady, pipe, pipelineState,
                    uniformReady, rwBinding, nodeResult >>
    /\ UNCHANGED mainVars
    /\ UNCHANGED << conv, call, voxel >>

\* ---------------------------------------- requeue_existing_tri_to_splat_jobs
\* q: Query<(&TriToSplatGpu, &PlanarStorageBindGroupRw)>
RequeueQuery_Empty == {}

RequeueQuery == { c \in extracted : gpu[c].present /\ rwBinding[c] # 0 }

RECURSIVE RequeueLoop(_, _, _)
RequeueLoop(order, i, q) ==
    IF i > Len(order) THEN q
    ELSE RequeueLoop(order, i + 1,
            Append(q, Job(gpu[order[i]].bind_group_inputs,
                          BindGroup(order[i], rwBinding[order[i]]),
                          gpu[order[i]].workgroups)))

requeue_existing_tri_to_splat_jobs ==
    /\ CanRun("requeue")
    /\ \E order \in Orders(RequeueQuery) : jobs' = RequeueLoop(order, 1, jobs)
    /\ frameLog' = Append(frameLog, "requeue")
    /\ UNCHANGED << frame, phase, extracted, viewParams, storageReady, pipe, pipelineState,
                    uniformReady, rwBinding, gpu, uploads, nodeResult >>
    /\ UNCHANGED mainVars
    /\ UNCHANGED << conv, call, voxel >>

\* --------------------------------------------------------- TriToSplatNode::run
\* cache.get_compute_pipeline(pipe.pipeline) is Some
PipelineReady_Always == TRUE

PipelineReady == pipelineState = "Ready"

\* params_uniforms.uniforms().binding() is Some
ParamsBindingReady == uniformReady

\* The camera driver runs the views one after the other, in camera order.
ViewBefore(a, b) == a = "cam1" /\ b = "cam2"

\* TriToSplatParamsIndex = DynamicUniformIndex<TriToSplatParams>: the slot that
\* UniformComponentPlugin gave the view's params in the per-view uniform
\* buffer, one slot for each view that carries the component.
ParamsIndex(view) == Cardinality({ other \in Views : ViewBefore(other, view) })

NodeRun_FirstSlot(queue, params_ix) ==
    IF ~PipelineReady
    THEN [status |-> "Ok", bind_groups |-> 0, passes |-> 0, params_ix |-> NoIndex,
          dispatches |-> << >>]
    ELSE IF ~ParamsBindingReady
    THEN [status |-> "Ok", bind_groups |-> 0, passes |-> 0, params_ix |-> NoIndex,
          dispatches |-> << >>]
    ELSE [status |-> "Ok", bind_groups |-> 1, passes |-> 1,
          params_ix |-> [bound |-> TRUE, index |-> 0], dispatches |-> queue]

\* What one run of the node does for one view: the two early returns, else one
\* params bind group bound at the view's dynamic offset, one compute pass and
\* one dispatch per queued job.
NodeRun(queue, params_ix) ==
    IF ~PipelineReady
    THEN [status |-> "Ok", bind_groups |-> 0, passes |-> 0, params_ix |-> NoIndex,
          dispatches |-> << >>]
    ELSE IF ~ParamsBindingReady
    THEN [status |-> "Ok", bind_groups |-> 0, passes |-> 0, params_ix |-> NoIndex,
          dispatches |-> << >>]
    ELSE [status |-> "Ok", bind_groups |-> 1, passes |-> 1,
          params_ix |-> [bound |-> TRUE, index |-> params_ix], dispatches |-> queue]

\* The graph node runs in RenderSet::Render, after every system of
\* RenderSet::PrepareBindGroups, once for each view that carries
\* TriToSplatParams and its dynamic-uniform index.
TriToSplatNode_run(view) ==
    /\ phase = "render"
    /\ \A sys \in RenderSystems : Ran(sys)
    /\ view \in Views
    /\ nodeResult[view].status = "pending"
    /\ \A other \in Views : ViewBefore(other, view) => nodeResult[other].status # "pending"
    /\ nodeResult' = [nodeResult EXCEPT ![view] = NodeRun(jobs, ParamsIndex(view))]
    /\ frameLog' = Append(frameLog, "node")
    /\ UNCHANGED << frame, phase, extracted, viewParams, storageReady, pipe, pipelineState,
                    uniformReady, rwBinding, gpu, uploads, jobs >>
    /\ UNCHANGED mainVars
    /\ UNCHANGED << conv, call, voxel >>

GraphDone ==
    /\ phase = "render"
    /\ \A sys \in RenderSystems : Ran(sys)
    /\ \A view \in Views : nodeResult[view].status # "pending"

\* ------------------------------------------------------------- the frame loop
EndFrame ==
    /\ GraphDone
    /\ frame < MaxFrames
    /\ frame' = frame + 1
    /\ phase' = "main"
    /\ updateDone' = {}
    /\ frameLog' = << >>
    /\ nodeResult' = [c \in Cameras |-> NotRun]
    /\ UNCHANGED << config, mesh, converted, visibility, cloudLink, assets, clouds,
                    cameras, params, mainCmds >>
    /\ UNCHANGED << extracted, viewParams, storageReady, pipe, pipelineState, uniformReady,
                    rwBinding, gpu, uploads, jobs >>
    /\ UNCHANGED << conv, call, voxel >>

Next ==
    \/ \E s \in Sources, m \in MeshChoices : MeshBecomes(s, m)
    \/ process_new_meshes_for_gpu_conversion
    \/ update_tri_to_splat_params
    \/ ApplyDeferredMain
    \/ Extract
    \/ PrepareAssets
    \/ clear_tri_to_splat_jobs
    \/ queue_planar_cloud_rw_bind_group
    \/ queue_tri_to_splat_inputs
    \/ requeue_existing_tri_to_splat_jobs
    \/ \E view \in Cameras : TriToSplatNode_run(view)
    \/ EndFrame

Spec == Init /\ [][Next]_vars

\* ------------------------------------------- workgroup sizing over all sizes
\* The state right after the Update schedule of the frame in which s1
\* (realtime false) was converted from an indexed mesh of T triangles, for
\* every T up to MaxTriCount; from there the frames run on with the meshes
\* left as they are.
ConvertedFrom(T) ==
    /\ frame = 1
    /\ phase = "main"
    /\ config = [s \in Sources |-> MeshToGaussian(FALSE, TRUE)]
    /\ mesh = [s \in Sources |->
                IF s = "s1" THEN Mesh("loaded", "Float32x3", T + 2, TRUE, 3 * T)
                ELSE NoMesh]
    /\ converted = [s \in Sources |-> s = "s1"]
    /\ visibility = [s \in Sources |-> IF s = "s1" THEN "Hidden" ELSE "Visible"]
    /\ cloudLink = [s \in Sources |-> IF s = "s1" THEN 1 ELSE 0]
    /\ assets = << [position_visibility |-> T, spherical_harmonic |-> T,
                    rotation |-> T, scale_opacity |-> T] >>
    /\ clouds = << [handle |-> 1, cloudOf |-> "s1", positions |-> T + 2,
                    indices |-> 3 * T, tri_count |-> T] >>
    /\ cameras = Cameras
    /\ params = [c \in Cameras |-> IF c = "cam1" THEN TriToSplatParams(1) ELSE NoParams]
    /\ updateDone = {"assets", "process"}
    /\ mainCmds = << >>
    /\ extracted = {}
    /\ viewParams = [c \in Cameras |-> NoParams]
    /\ storageReady = {}
    /\ pipe = TriToSplatPipeline_from_world(NoPipeline)
    /\ pipelineState = "Uncompiled"
    /\ uniformReady = FALSE
    /\ voxel = VoxelPlugin_build
    /\ rwBinding = [c \in CloudIds |-> 0]
    /\ gpu = [c \in CloudIds |-> NoGpu]
    /\ uploads = [c \in CloudIds |-> 0]
    /\ jobs = << >>
    /\ frameLog = << >>
    /\ nodeResult = [c \in Cameras |-> NotRun]
    /\ conv = ConvIdle
    /\ call = CpuIdle

InitWG == \E T \in 1..MaxTriCount : ConvertedFrom(T)

NextWG ==
    \/ process_new_meshes_for_gpu_conversion
    \/ update_tri_to_splat_params
    \/ ApplyDeferredMain
    \/ Extract
    \/ PrepareAssets
    \/ clear_tri_to_splat_jobs
    \/ queue_planar_cloud_rw_bind_group
    \/ queue_tri_to_splat_inputs
    \/ requeue_existing_tri_to_splat_jobs
    \/ \E view \in Cameras : TriToSplatNode_run(view)
    \/ EndFrame

SpecWG == InitWG /\ [][NextWG]_vars

\* ------------------------------------------------- the frame loop keeps running
\* Sources spawned with MeshToGaussian::default(); the schedules run every
\* frame: whenever a system, a sync point, the extraction or the render graph
\* can run, one of them eventually does. When and whether a mesh changes is
\* up to the asset server.
InitLive ==
    /\ Init
    /\ config = [s \in Sources |-> MeshToGaussian(FALSE, TRUE)]

SpecLive == InitLive /\ [][Next]_vars /\ WF_vars(NextWG)

\* ------------------------- one iteration of the conversion loop, step by step
\* The body of `for (source_entity, config) in &source_q` from the point where
\* the mesh is loaded and its positions are Float32x3, followed local by
\* local over the contents of the mesh; the schedule does not run meanwhile.
pipelineVars == << frame, phase, mainVars, renderVars >>

\* xs.iter().map(|&i| i as u32): the 16 bits of i, zero-extended
AsU32_Low8(i) == i % 256

AsU32(i) == i % U16Range

\* let indices: Vec<u32> = match mesh.indices() { U16 | U32 | None }
CapturedIndices(mesh_indices, positions_len) ==
    IF mesh_indices.kind = "U16"
    THEN [k \in DOMAIN mesh_indices.xs |-> AsU32(mesh_indices.xs[k])]
    ELSE IF mesh_indices.kind = "U32" THEN mesh_indices.xs
    ELSE [k \in 1..positions_len |-> k - 1]

\* pos.iter().map(|p| [p[0], p[1], p[2], 1.0]).collect()
CapturedPositions(pos) == [k \in DOMAIN pos |-> << pos[k][1], pos[k][2], pos[k][3], 1 >>]

\* positions, indices, tri_count; `if tri_count == 0 { ...; continue; }`
CaptureMeshArrays ==
    /\ conv.pc = "start"
    /\ LET positions == CapturedPositions(conv.pos)
           indices == CapturedIndices(conv.mesh_indices, Len(positions))
           tri_count == TriCountOfLen(Len(indices))
       IN  conv' = [conv EXCEPT !.positions = positions,
                                !.indices = indices,
                                !.tri_count = tri_count,
                                !.pc = IF EmptyTriangleList(tri_count)
                                       THEN "skipped" ELSE "counted"]
    /\ UNCHANGED pipelineVars
    /\ UNCHANGED << call, voxel >>

\* vec![zero; tri_count as usize]
Repeat(x, n) == [k \in 1..n |-> x]

\* cloud_asset, clouds.add(cloud_asset)
AddCloudAsset ==
    /\ conv.pc = "counted"
    /\ conv' = [conv EXCEPT !.cloud_asset =
                                PlanarGaussian3d(Repeat(zero_pv,  conv.tri_count),
                                                 Repeat(zero_sh,  conv.tri_count),
                                                 Repeat(zero_rot, conv.tri_count),
                                                 Repeat(zero_so,  conv.tri_count)),
                            !.i = 0,
                            !.pc = "seeding"]
    /\ UNCHANGED pipelineVars
    /\ UNCHANGED << call, voxel >>

\* indices.chunks(3): chunk i (from 0) of the captured indices, empty past the end
Chunk(indices, i) ==
    SubSeq(indices, 3 * i + 1, IF 3 * i + 3 <= Len(indices) THEN 3 * i + 3 ELSE Len(indices))

\* pos[j as usize] panics when j >= pos.len()
InBounds(pos, j) == j < Len(pos)

Centroid(p0, p1, p2) ==
    Vec3(<< p0[1] + p1[1] + p2[1], p0[2] + p1[2] + p2[2], p0[3] + p1[3] + p2[3] >>, 3)

\* if let Some(pv) = cloud.position_visibility.get_mut(i) { pv.position = ..; pv.visibility = 1.0 }
SeedEntry_Push(pvs, i, centroid) == Append(pvs, [position |-> centroid, visibility |-> 1])

SeedEntry(pvs, i, centroid) ==
    IF i < Len(pvs)
    THEN [pvs EXCEPT ![i + 1] = [position |-> centroid, visibility |-> 1]]
    ELSE pvs

\* One turn of `for (i, tri) in indices.chunks(3).enumerate()`.
SeedCentroid ==
    /\ conv.pc = "seeding"
    /\ LET tri == Chunk(conv.indices, conv.i)
       IN  IF tri = << >> \/ Len(tri) < 3
           THEN conv' = [conv EXCEPT !.pc = "seeded"]
           ELSE IF \E k \in 1..3 : ~InBounds(conv.pos, tri[k])
           THEN conv' = [conv EXCEPT !.pc = "panicked"]
           ELSE LET p0 == conv.pos[tri[1] + 1]
                    p1 == conv.pos[tri[2] + 1]
                    p2 == conv.pos[tri[3] + 1]
                IN  conv' = [conv EXCEPT
                                !.cloud_asset.position_visibility =
                                    SeedEntry(@, conv.i, Centroid(p0, p1, p2)),
                                !.i = @ + 1]
    /\ UNCHANGED pipelineVars
    /\ UNCHANGED << call, voxel >>

\* commands.spawn((.., TriToSplatCpuInput { positions, indices, tri_count }, ..))
SpawnCloudEntity ==
    /\ conv.pc = "seeded"
    /\ conv' = [conv EXCEPT !.input = TriToSplatCpuInput(conv.positions, conv.indices,
                                                         conv.tri_count),
                            !.pc = "spawned"]
    /\ UNCHANGED pipelineVars
    /\ UNCHANGED << call, voxel >>

InitConv ==
    /\ InitPipeline
    /\ call = CpuIdle
    /\ config = [s \in Sources |-> MeshToGaussian(FALSE, TRUE)]
    /\ \E vertex_count \in 0..MaxVerts, mesh_indices \in IndicesChoices :
            conv = ConvAt("start", MeshPositions(vertex_count), mesh_indices)

NextConv ==
    \/ CaptureMeshArrays
    \/ AddCloudAsset
    \/ SeedCentroid
    \/ SpawnCloudEntity

SpecConv == InitConv /\ [][NextConv]_vars

\* ------------------------------------------------------- from App::run on
\* The plugins are built, the user's sources and cameras are spawned, and the
\* plugins' finish has not run yet: no TriToSplatPipeline resource, nothing
\* queued in the PipelineCache.
InitStartup ==
    /\ frame = 1
    /\ phase = "startup"
    /\ config \in ConfigChoices
    /\ mesh = [s \in Sources |-> NoMesh]
    /\ converted = [s \in Sources |-> FALSE]
    /\ visibility = [s \in Sources |-> "Visible"]
    /\ cloudLink = [s \in Sources |-> 0]
    /\ assets = << >>
    /\ clouds = << >>
    /\ cameras = Cameras
    /\ params = [c \in Cameras |-> IF c = "cam1" THEN TriToSplatParams(1) ELSE NoParams]
    /\ updateDone = {}
    /\ mainCmds = << >>
    /\ extracted = {}
    /\ viewParams = [c \in Cameras |-> NoParams]
    /\ storageReady = {}
    /\ pipe = NoPipeline
    /\ pipelineState = "Unqueued"
    /\ uniformReady = FALSE
    /\ voxel = VoxelPlugin_build
    /\ rwBinding = [c \in CloudIds |-> 0]
    /\ gpu = [c \in CloudIds |-> NoGpu]
    /\ uploads = [c \in CloudIds |-> 0]
    /\ jobs = << >>
    /\ frameLog = << >>
    /\ nodeResult = [c \in Cameras |-> NotRun]
    /\ conv = ConvIdle
    /\ call = CpuIdle

\* TriToSplatPlugin::finish, called once by the App before the first frame,
\* with the render sub-app and its RenderDevice in place.
TriToSplatPlugin_finish ==
    /\ phase = "startup"
    /\ pipe' = init_resource(pipe)
    /\ pipelineState' = IF pipe'.queued > pipe.queued THEN "Uncompiled" ELSE pipelineState
    /\ phase' = "main"
    /\ UNCHANGED << frame, extracted, viewParams, storageReady, uniformReady, rwBinding,
                    gpu, uploads, jobs, frameLog, nodeResult >>
    /\ UNCHANGED mainVars
    /\ UNCHANGED << conv, call, voxel >>

NextStartup ==
    \/ TriToSplatPlugin_finish
    \/ Next

SpecStartup == InitStartup /\ [][NextStartup]_vars

\* ------------------------------------------ the CPU helpers, call by call
MaxCloudLen == 3

Topologies == {"PointList", "LineList", "LineStrip", "TriangleList", "TriangleStrip"}

\* indices.chunks(n): consecutive slices of n elements, the last one shorter
\* when n does not divide the length.
Chunks(xs, n) ==
    [k \in 1..((Len(xs) + n - 1) \div n) |->
        SubSeq(xs, n * (k - 1) + 1, IF n * k <= Len(xs) THEN n * k ELSE Len(xs))]

\* indices.chunks_exact(n): the slices of exactly n elements.
ChunksExact(xs, n) == [k \in 1..(Len(xs) \div n) |-> SubSeq(xs, n * (k - 1) + 1, n * k)]

ChunkFilter_Any(c) == TRUE

\* .filter(|c| c.len() == 3)
ChunkFilter(c) == Len(c) = 3

TrianglesFromCall(topology, indices) ==
    [fn |-> "triangles_from", topology |-> topology, indices |-> indices,
     pc |-> "call", warned |-> FALSE, chunks |-> << >>, out |-> << >>]

\* The match on the topology: the warning, and the iterator that is returned.
triangles_from ==
    /\ call.fn = "triangles_from"
    /\ call.pc = "call"
    /\ call' = IF call.topology = "TriangleList"
               THEN [call EXCEPT !.chunks = ChunksExact(call.indices, 3), !.pc = "iter"]
               ELSE [call EXCEPT !.warned = TRUE,
                                 !.chunks = Chunks(call.indices, 3), !.pc = "iter"]
    /\ UNCHANGED pipelineVars
    /\ UNCHANGED << conv, voxel >>

\* One next() of the returned iterator: the next chunk, dropped by the filter
\* of the fallback arm or mapped to [c[0], c[1], c[2]]; c[2] of a shorter
\* chunk is out of bounds.
triangles_from_next ==
    /\ call.fn = "triangles_from"
    /\ call.pc = "iter"
    /\ call' =
         IF call.chunks = << >> THEN [call EXCEPT !.pc = "done"]
         ELSE LET c == Head(call.chunks)
              IN  IF call.topology # "TriangleList" /\ ~ChunkFilter(c)
                  THEN [call EXCEPT !.chunks = Tail(@)]
                  ELSE IF Len(c) < 3 THEN [call EXCEPT !.pc = "panicked"]
                  ELSE [call EXCEPT !.chunks = Tail(@),
                                    !.out = Append(@, << c[1], c[2], c[3] >>)]
    /\ UNCHANGED pipelineVars
    /\ UNCHANGED << conv, voxel >>

\* A Gaussian3d by its position and opacity (one coordinate stands for the
\* vector); den is the denominator under both.
Gaussian3d(position, opacity, den) ==
    [position |-> position, opacity |-> opacity, den |-> den]

CloudA(len) == [k \in 1..len |-> Gaussian3d(10 * k, k, 1)]

CloudB(len) == [k \in 1..len |-> Gaussian3d(100 * k, 5 * k, 1)]

\* t in halves, below 0 and above 1 included.
TChoices == {-1, 0, 1, 2, 3}

\* t.clamp(0.0, 1.0), in halves
Clamp01(t2) == IF t2 < 0 THEN 0 ELSE IF t2 > 2 THEN 2 ELSE t2

\* a.lerp(b, t) and a * (1.0 - t) + b * t over halves: twice the value
Lerp(a, b, t2) == a * (2 - t2) + b * t2

InterpolateCloudsCall(cloud_a, cloud_b, t2) ==
    [fn |-> "interpolate_clouds", cloud_a |-> cloud_a, cloud_b |-> cloud_b, t |-> t2,
     pc |-> "call", max_len |-> 0, i |-> 0, result |-> << >>]

\* The prologue: clamp t, max_len, the empty result.
interpolate_clouds ==
    /\ call.fn = "interpolate_clouds"
    /\ call.pc = "call"
    /\ call' = [call EXCEPT !.t = Clamp01(call.t),
                            !.max_len = Max(Len(call.cloud_a), Len(call.cloud_b)),
                            !.pc = "loop"]
    /\ UNCHANGED pipelineVars
    /\ UNCHANGED << conv, voxel >>

\* One iteration of `for i in 0..max_len`; i % len panics when len is 0.
interpolate_clouds_step ==
    /\ call.fn = "interpolate_clouds"
    /\ call.pc = "loop"
    /\ call' =
         IF call.i >= call.max_len THEN [call EXCEPT !.pc = "returned"]
         ELSE IF Len(call.cloud_a) = 0 \/ Len(call.cloud_b) = 0
         THEN [call EXCEPT !.pc = "panicked"]
         ELSE LET a == call.cloud_a[(call.i % Len(call.cloud_a)) + 1]
                  b == call.cloud_b[(call.i % Len(call.cloud_b)) + 1]
                  new_g == Gaussian3d(Lerp(a.position, b.position, call.t),
                                      Lerp(a.opacity, b.opacity, call.t), 2)
              IN  [call EXCEPT !.result = Append(@, new_g), !.i = @ + 1]
    /\ UNCHANGED pipelineVars
    /\ UNCHANGED << conv, voxel >>

InitCpu ==
    /\ InitPipeline
    /\ config = [s \in Sources |-> MeshToGaussian(FALSE, TRUE)]
    /\ conv = ConvIdle
    /\ \/ \E topology \in Topologies, indices \in SeqsUpTo(IndexValues, MaxIndexLen) :
            call = TrianglesFromCall(topology, indices)
       \/ \E la \in 0..MaxCloudLen, lb \in 0..MaxCloudLen, t2 \in TChoices :
            call = InterpolateCloudsCall(CloudA(la), CloudB(lb), t2)

NextCpu ==
    \/ triangles_from
    \/ triangles_from_next
    \/ interpolate_clouds
    \/ interpolate_clouds_step

SpecCpu == InitCpu /\ [][NextCpu]_vars

\* --------------------------------------- the workgroup count in 32 bits
\* A u32 by its two 16-bit halves: the value is hi * 65536 + lo.
MaxLowSpan == 70

U32(hi, lo) == [hi |-> hi, lo |-> lo]

HighHalves == {0, 1, U16Range \div 2, U16Range - 1}

LowHalves == (0..MaxLowSpan) \cup ((U16Range - 1 - MaxLowSpan)..(U16Range - 1))

\* a + n in u32 for n < 65536: the sum modulo 2^32 and whether it overflowed
U32Add(a, n) ==
    LET lo == a.lo + n
        hi == a.hi + (lo \div U16Range)
    IN  [value |-> U32(hi % U16Range, lo % U16Range), overflow |-> hi >= U16Range]

\* a / 64 in u32; the quotient is below 2^26
U32DivWorkgroupSize(a) == a.hi * (U16Range \div WorkgroupSize) + (a.lo \div WorkgroupSize)

WorkgroupsCall(tri_count, overflow_checks) ==
    [fn |-> "workgroups", tri_count |-> tri_count, overflow_checks |-> overflow_checks,
     pc |-> "call", x |-> 0, workgroups |-> << 0, 0, 0 >>]

\* let x = (cpu.tri_count + 63) / 64: the addition panics on overflow in a
\* build with overflow checks and wraps in one without.
workgroups_x ==
    /\ call.fn = "workgroups"
    /\ call.pc = "call"
    /\ LET sum == U32Add(call.tri_count, WorkgroupSize - 1)
       IN  call' = IF sum.overflow /\ call.overflow_checks
                   THEN [call EXCEPT !.pc = "panicked"]
                   ELSE [call EXCEPT !.x = U32DivWorkgroupSize(sum.value), !.pc = "x"]
    /\ UNCHANGED pipelineVars
    /\ UNCHANGED << conv, voxel >>

\* let workgroups = UVec3::new(x.max(1), 1, 1)
workgroups_uvec3 ==
    /\ call.fn = "workgroups"
    /\ call.pc = "x"
    /\ call' = [call EXCEPT !.workgroups = << Max(call.x, 1), 1, 1 >>, !.pc = "done"]
    /\ UNCHANGED pipelineVars
    /\ UNCHANGED << conv, voxel >>

InitU32 ==
    /\ InitPipeline
    /\ config = [s \in Sources |-> MeshToGaussian(FALSE, TRUE)]
    /\ conv = ConvIdle
    /\ \E hi \in HighHalves, lo \in LowHalves, overflow_checks \in BOOLEAN :
            call = WorkgroupsCall(U32(hi, lo), overflow_checks)

NextU32 ==
    \/ workgroups_x
    \/ workgroups_uvec3

SpecU32 == InitU32 /\ [][NextU32]_vars

\* ------------------------------------- find_descendant_mesh_with_transform
MaxEntities == 4
MaxEdits == 3

Entities == 1..MaxEntities

\* The hierarchies: entity e has no parent (0) or an earlier entity as its
\* parent, so they are the forests over the entities; the search starts at 1.
Hierarchies == { p \in [Entities -> 0..MaxEntities] : \A e \in Entities : p[e] < e }

RECURSIVE ChildrenFrom(_, _, _)
ChildrenFrom(parent, e, k) ==
    IF k > MaxEntities THEN << >>
    ELSE (IF parent[k] = e THEN << k >> ELSE << >>) \o ChildrenFrom(parent, e, k + 1)

\* The Children component of e: the entities whose parent is e.
Children(parent, e) == ChildrenFrom(parent, e, 1)

NoneFound == [some |-> FALSE, entity |-> 0]

SomeFound(entity) == [some |-> TRUE, entity |-> entity]

FindCall(parent, mesh_3d, transform) ==
    [fn |-> "find_descendant_mesh_with_transform", parent |-> parent,
     mesh_3d |-> mesh_3d, transform |-> transform,
     pc |-> "call", stack |-> << >>, popped |-> << >>, result |-> NoneFound]

\* let mut stack = vec![root];
find_descendant_mesh_with_transform ==
    /\ call.fn = "find_descendant_mesh_with_transform"
    /\ call.pc = "call"
    /\ call' = [call EXCEPT !.stack = << 1 >>, !.pc = "loop"]
    /\ UNCHANGED pipelineVars
    /\ UNCHANGED << conv, voxel >>

FoundAt_MeshOnly(c, entity) == entity \in c.mesh_3d

\* mesh_3d_q.get(entity) is Ok and transform_q.get(entity) is Ok
FoundAt(c, entity) == entity \in c.mesh_3d /\ entity \in c.transform

\* One turn of `while let Some(entity) = stack.pop()`.
find_descendant_pop ==
    /\ call.fn = "find_descendant_mesh_with_transform"
    /\ call.pc = "loop"
    /\ call' =
         IF call.stack = << >> THEN [call EXCEPT !.pc = "returned"]
         ELSE LET entity == call.stack[Len(call.stack)]
                  rest == SubSeq(call.stack, 1, Len(call.stack) - 1)
              IN  IF FoundAt(call, entity)
                  THEN [call EXCEPT !.stack = rest, !.popped = Append(@, entity),
                                    !.result = SomeFound(entity), !.pc = "returned"]
                  ELSE [call EXCEPT !.stack = rest \o Children(call.parent, entity),
                                    !.popped = Append(@, entity)]
    /\ UNCHANGED pipelineVars
    /\ UNCHANGED << conv, voxel >>

InitFind ==
    /\ InitPipeline
    /\ config = [s \in Sources |-> MeshToGaussian(FALSE, TRUE)]
    /\ conv = ConvIdle
    /\ \E parent \in Hierarchies, mesh_3d \in SUBSET Entities, transform \in SUBSET Entities :
            call = FindCall(parent, mesh_3d, transform)

NextFind ==
    \/ find_descendant_mesh_with_transform
    \/ find_descendant_pop

\* The function runs to its return: no step of it waits for anything.
SpecFind == InitFind /\ [][NextFind]_vars /\ WF_vars(NextFind)

\* ------------------------------------------------------ mesh_to_gaussians
\* The meshes: V positions or no position attribute, a normal attribute of
\* some length or none, an index buffer (as u32) or none.
NoAttribute == [present |-> FALSE, len |-> 0]

Attribute(len) == [present |-> TRUE, len |-> len]

NoIndices == [present |-> FALSE, ix |-> << >>]

SomeIndices(ix) == [present |-> TRUE, ix |-> ix]

\* Index buffers over four values: empty, one triangle, one triangle and a
\* remainder, and the triangle (0, 1, 2) followed by a second triangle.
FaceIndexBuffers ==
    UNION { [1..l -> 0..3] : l \in {0, 3, 4} }
        \cup { << 0, 1, 2 >> \o tri : tri \in [1..3 -> 0..3] }

MeshTopologies == {"TriangleList", "LineList"}

MeshConversionSettings(include_vertices, include_faces, include_edges) ==
    [include_vertices |-> include_vertices, include_faces |-> include_faces,
     include_edges |-> include_edges]

\* triangles_from(topology, indices).collect()
TrianglesFrom(topology, indices) ==
    IF topology = "TriangleList" THEN ChunksExact(indices, 3)
    ELSE SelectSeq(Chunks(indices, 3), ChunkFilter)

\* positions[tri[k] as usize] for the three corners is in bounds
TriInBounds(tri, len) == \A k \in 1..3 : tri[k] < len

\* compute_vertex_normals: one normal per position; indexes positions and
\* normals by every triangle corner.
ComputeVertexNormals(topology, positions, indices) ==
    IF indices.present
       /\ \E k \in DOMAIN TrianglesFrom(topology, indices.ix) :
                ~TriInBounds(TrianglesFrom(topology, indices.ix)[k], positions)
    THEN [panicked |-> TRUE, len |-> 0]
    ELSE [panicked |-> FALSE, len |-> positions]

Min(a, b) == IF a <= b THEN a ELSE b

\* 1) positions.iter().zip(vertex_normals.iter()): one splat per pair
VertexSplats(positions, normals) == [i \in 1..Min(positions, normals) |-> [kind |-> "vertex", at |-> << i - 1 >>]]

\* 2) one splat per triangle, at its centroid
RECURSIVE FaceSplats(_, _, _, _)
FaceSplats(tris, k, positions, st) ==
    IF st.panicked \/ k > Len(tris) THEN st
    ELSE IF ~TriInBounds(tris[k], positions) THEN [st EXCEPT !.panicked = TRUE]
    ELSE FaceSplats(tris, k + 1, positions,
                    [st EXCEPT !.out = Append(@, [kind |-> "face", at |-> tris[k]])])

\* the three edges of tri, in the order the code visits them
EdgesOf(tri) == << << tri[1], tri[2] >>, << tri[2], tri[3] >>, << tri[3], tri[1] >> >>

RECURSIVE AllEdges(_, _)
AllEdges(tris, k) == IF k > Len(tris) THEN << >> ELSE EdgesOf(tris[k]) \o AllEdges(tris, k + 1)

\* let (lo, hi) = if a < b { (a, b) } else { (b, a) };
Undirected(e) == IF e[1] < e[2] THEN e ELSE << e[2], e[1] >>

\* 3) one splat per edge that edge_set.insert accepts
RECURSIVE EdgeSplats(_, _, _, _, _)
EdgeSplats(edges, k, positions, normals, st) ==
    IF st.panicked \/ k > Len(edges) THEN st
    ELSE LET e == Undirected(edges[k])
         IN  IF e \in st.edge_set THEN EdgeSplats(edges, k + 1, positions, normals, st)
             ELSE IF e[1] >= positions \/ e[2] >= positions
                     \/ e[1] >= normals \/ e[2] >= normals
             THEN [st EXCEPT !.panicked = TRUE]
             ELSE EdgeSplats(edges, k + 1, positions, normals,
                             [st EXCEPT !.edge_set = @ \cup {e},
                                        !.out = Append(@, [kind |-> "edge", at |-> e])])

MeshToGaussiansCall(topology, positions, normals, indices, settings) ==
    [fn |-> "mesh_to_gaussians", topology |-> topology, positions |-> positions,
     normals |-> normals, indices |-> indices, settings |-> settings,
     pc |-> "call", out |-> << >>]

\* The whole function on the mesh and settings of the call.
MeshToGaussians(c) ==
    IF ~c.positions.present THEN [c EXCEPT !.pc = "returned"]
    ELSE
      LET vertex_normals ==
              IF c.normals.present THEN [panicked |-> FALSE, len |-> c.normals.len]
              ELSE ComputeVertexNormals(c.topology, c.positions.len, c.indices)
          st0 == [panicked |-> vertex_normals.panicked, edge_set |-> {},
                  out |-> IF c.settings.include_vertices /\ ~vertex_normals.panicked
                          THEN VertexSplats(c.positions.len, vertex_normals.len)
                          ELSE << >>]
          tris == TrianglesFrom(c.topology, c.indices.ix)
          st1 == IF c.indices.present /\ c.settings.include_faces
                 THEN FaceSplats(tris, 1, c.positions.len, st0) ELSE st0
          st2 == IF c.indices.present /\ c.settings.include_edges
                 THEN EdgeSplats(AllEdges(tris, 1), 1, c.positions.len,
                                 vertex_normals.len, st1)
                 ELSE st1
      IN  IF st2.panicked THEN [c EXCEPT !.pc = "panicked"]
          ELSE [c EXCEPT !.out = st2.out, !.pc = "returned"]

mesh_to_gaussians ==
    /\ call.fn = "mesh_to_gaussians"
    /\ call.pc = "call"
    /\ call' = MeshToGaussians(call)
    /\ UNCHANGED pipelineVars
    /\ UNCHANGED << conv, voxel >>

InitMesh ==
    /\ InitPipeline
    /\ config = [s \in Sources |-> MeshToGaussian(FALSE, TRUE)]
    /\ conv = ConvIdle
    /\ \E topology \in MeshTopologies,
          positions \in {NoAttribute} \cup { Attribute(v) : v \in {0, MaxVerts - 1, MaxVerts} },
          short \in BOOLEAN, with_normals \in BOOLEAN,
          indices \in {NoIndices} \cup { SomeIndices(ix) : ix \in FaceIndexBuffers },
          iv \in BOOLEAN, if \in BOOLEAN, ie \in BOOLEAN :
            /\ short => with_normals /\ positions.len > 0
            /\ call = MeshToGaussiansCall(topology, positions,
                          IF ~with_normals THEN NoAttribute
                          ELSE Attribute(positions.len - (IF short THEN 1 ELSE 0)),
                          indices, MeshConversionSettings(iv, if, ie))

NextMesh == mesh_to_gaussians

SpecMesh == InitMesh /\ [][NextMesh]_vars

\* ------------------------------------------------- the voxel Update chain
\* batch.ops.push(op), by queue_set or by a brush, at any point of a frame
queue_edit ==
    /\ voxel.frame < MaxFrames
    /\ voxel.metrics.edits_applied + Len(voxel.batch) < MaxEdits
    /\ \E op \in EditOps : voxel' = [voxel EXCEPT !.batch = Append(@, op)]
    /\ UNCHANGED pipelineVars
    /\ UNCHANGED << conv, call >>

apply_edits ==
    /\ voxel.frame < MaxFrames
    /\ "apply_edits" \notin voxel.ran
    /\ voxel' = SystemRan(ApplyEdits(voxel), "apply_edits")
    /\ UNCHANGED pipelineVars
    /\ UNCHANGED << conv, call >>

\* extract_surface.after(apply_edits)
extract_surface ==
    /\ "apply_edits" \in voxel.ran
    /\ "extract_surface" \notin voxel.ran
    /\ voxel' = SystemRan(ExtractSurface(voxel), "extract_surface")
    /\ UNCHANGED pipelineVars
    /\ UNCHANGED << conv, call >>

\* manage_billboard_instances.after(extract_surface)
manage_billboard_instances ==
    /\ "extract_surface" \in voxel.ran
    /\ "manage_billboard_instances" \notin voxel.ran
    /\ voxel' = SystemRan(ManageBillboardInstances(voxel), "manage_billboard_instances")
    /\ UNCHANGED pipelineVars
    /\ UNCHANGED << conv, call >>

\* flush_metrics.after(apply_edits)
flush_metrics ==
    /\ "apply_edits" \in voxel.ran
    /\ "flush_metrics" \notin voxel.ran
    /\ voxel' = SystemRan(FlushMetrics(voxel), "flush_metrics")
    /\ UNCHANGED pipelineVars
    /\ UNCHANGED << conv, call >>

\* The Update schedule has run every system of the chain: the next frame.
VoxelFrameEnd ==
    /\ voxel.ran = VoxelSystems
    /\ voxel' = [voxel EXCEPT !.ran = {}, !.drained = << >>, !.frame = @ + 1]
    /\ UNCHANGED pipelineVars
    /\ UNCHANGED << conv, call >>

InitVoxel ==
    /\ InitPipeline
    /\ config = [s \in Sources |-> MeshToGaussian(FALSE, TRUE)]
    /\ conv = ConvIdle
    /\ call = CpuIdle

NextVoxel ==
    \/ queue_edit
    \/ apply_edits
    \/ extract_surface
    \/ manage_billboard_instances
    \/ flush_metrics
    \/ VoxelFrameEnd

SpecVoxel == InitVoxel /\ [][NextVoxel]_vars

\* ------------------------------------------- VoxelChunkSimple, call by call
MaxOps == 3

\* The positions the calls name: three in range, and one past each end of
\* each axis. The index arithmetic would take (32, 0, 0) to the place of
\* (0, 1, 0), and (0 - 1, 1, 0) to the place of (31, 0, 0).
ChunkPositions ==
    { IVec3(0, 0, 0), IVec3(0, 1, 0), IVec3(31, 0, 0), IVec3(31, 31, 31),
      IVec3(32, 0, 0), IVec3(0 - 1, 1, 0), IVec3(0, 32, 0), IVec3(0, 0 - 1, 0),
      IVec3(0, 0, 32), IVec3(0, 0, 0 - 1) }

MaterialIds == {1, 2}

NormalIndices == {0, 7}

\* A chunk from VoxelChunkSimple::new(), the number of calls made on it, and
\* the last call with its arguments and what it returned.
ChunkCall ==
    [fn |-> "VoxelChunkSimple", data |-> VoxelChunkSimple_new, ops |-> 0,
     last |-> [op |-> "new"]]

ChunkCalled(data, last) ==
    /\ call.fn = "VoxelChunkSimple"
    /\ call.ops < MaxOps
    /\ call' = [call EXCEPT !.data = data, !.ops = @ + 1, !.last = last]
    /\ UNCHANGED pipelineVars
    /\ UNCHANGED << conv, voxel >>

VoxelChunkSimple_set ==
    \E p \in ChunkPositions, material \in MaterialIds :
        ChunkCalled(chunk_set(call.data, p, material),
                    [op |-> "set", p |-> p, material |-> material])

VoxelChunkSimple_set_with_normal ==
    \E p \in ChunkPositions, material \in MaterialIds, normal_index \in NormalIndices :
        ChunkCalled(chunk_set_with_normal(call.data, p, material, normal_index),
                    [op |-> "set_with_normal", p |-> p, material |-> material,
                     normal_index |-> normal_index])

VoxelChunkSimple_clear ==
    \E p \in ChunkPositions :
        ChunkCalled(chunk_clear(call.data, p), [op |-> "clear", p |-> p])

VoxelChunkSimple_get ==
    \E p \in ChunkPositions :
        ChunkCalled(call.data, [op |-> "get", p |-> p, result |-> chunk_get(call.data, p)])

VoxelChunkSimple_is_set ==
    \E p \in ChunkPositions :
        ChunkCalled(call.data,
                    [op |-> "is_set", p |-> p, result |-> chunk_is_set(call.data, p)])

VoxelChunkSimple_count ==
    ChunkCalled(call.data, [op |-> "count", result |-> chunk_count(call.data)])

InitChunk ==
    /\ InitPipeline
    /\ config = [s \in Sources |-> MeshToGaussian(FALSE, TRUE)]
    /\ conv = ConvIdle
    /\ call = ChunkCall

NextChunk ==
    \/ VoxelChunkSimple_set
    \/ VoxelChunkSimple_set_with_normal
    \/ VoxelChunkSimple_clear
    \/ VoxelChunkSimple_get
    \/ VoxelChunkSimple_is_set
    \/ VoxelChunkSimple_count

SpecChunk == InitChunk /\ [][NextChunk]_vars

\* ------------------------------------------ from position to index and back
\* Every position of the chunk.
AllPositions ==
    { IVec3(x, y, z) : x \in 0..(ChunkSize - 1), y \in 0..(ChunkSize - 1),
                       z \in 0..(ChunkSize - 1) }

\* The positions of the voxel that is in the chunk before p is set.
OtherPositions == { IVec3(0, 0, 0), IVec3(31, 31, 31), IVec3(1, 2, 3) }

\* set(q, 2) and set(p, 1) on a new chunk, and then iter().collect()
RoundTripCall(p, q) ==
    [fn |-> "round_trip", p |-> p, q |-> q, pc |-> "new", data |-> VoxelChunkSimple_new,
     items |-> << >>]

round_trip_set_q ==
    /\ call.fn = "round_trip"
    /\ call.pc = "new"
    /\ call' = [call EXCEPT !.data = chunk_set(@, call.q, 2), !.pc = "set q"]
    /\ UNCHANGED pipelineVars
    /\ UNCHANGED << conv, voxel >>

round_trip_set_p ==
    /\ call.fn = "round_trip"
    /\ call.pc = "set q"
    /\ call' = [call EXCEPT !.data = chunk_set(@, call.p, 1), !.pc = "set p"]
    /\ UNCHANGED pipelineVars
    /\ UNCHANGED << conv, voxel >>

round_trip_iter ==
    /\ call.fn = "round_trip"
    /\ call.pc = "set p"
    /\ call' = [call EXCEPT !.items = chunk_iter(call.data), !.pc = "iter"]
    /\ UNCHANGED pipelineVars
    /\ UNCHANGED << conv, voxel >>

InitIndex ==
    /\ InitPipeline
    /\ config = [s \in Sources |-> MeshToGaussian(FALSE, TRUE)]
    /\ conv = ConvIdle
    /\ \E p \in AllPositions, q \in OtherPositions : call = RoundTripCall(p, q)

NextIndex ==
    \/ round_trip_set_q
    \/ round_trip_set_p
    \/ round_trip_iter

SpecIndex == InitIndex /\ [][NextIndex]_vars

\* =================================================================== claims
\* The entity a job was built for (the entity of its inputs bind group).
JobEntity(job) == job.inputs_bg.entity

JobsOf(c) == Cardinality({ i \in DOMAIN jobs : JobEntity(jobs[i]) = c })

\* Entities carrying both TriToSplatGpu and PlanarStorageBindGroupRw.
ReadyEntities == { c \in extracted : gpu[c].present /\ rwBinding[c] # 0 }

PrepareDone == phase = "render" /\ \A sys \in RenderSystems : Ran(sys)

\* C1: after the full prepare phase of every frame the queue holds exactly
\* one job per entity that has both an inputs binding and a storage binding
\* (queue length M for M ready entities, no duplicates, no omissions), in the
\* frame in which the entity first gets its bindings as in every later frame.
C1_OneJobPerReadyEntity ==
    PrepareDone =>
        /\ Len(jobs) = Cardinality(ReadyEntities)
        /\ \A c \in CloudIds : JobsOf(c) = (IF c \in ReadyEntities THEN 1 ELSE 0)

\* C2: storage bind-group creation is idempotent: over any number of frames at
\* most one storage bind group is ever created for an entity (rwBinding[c] is
\* the number created for c so far).
C2_StorageBindGroupCreatedOnce == \A c \in CloudIds : rwBinding[c] <= 1

RECURSIVE DispatchesOver(_)
DispatchesOver(views) ==
    IF views = {} THEN 0
    ELSE LET v == CHOOSE x \in views : TRUE
         IN  Len(nodeResult[v].dispatches) + DispatchesOver(views \ {v})

\* C3: in a frame in which the pipeline and the parameter binding are ready,
\* once the node has run for every active view (one or more), the number of
\* dispatch_workgroups calls of the frame equals the queue length: every
\* queued job was dispatched exactly once.
C3_OneDispatchPerJobPerFrame ==
    (GraphDone /\ Views # {} /\ pipelineState = "Ready" /\ uniformReady)
        => DispatchesOver(Cameras) = Len(jobs)

CloudsOf(s) == { c \in DOMAIN clouds : clouds[c].cloudOf = s }

\* C4: after any number of frames every source has at most one cloud entity
\* whose CloudOf names it, whether realtime is false or true.
C4_AtMostOneCloudPerSource == \A s \in Sources : Cardinality(CloudsOf(s)) <= 1

\* C5: within every render frame the queue clear runs before both enqueue
\* steps, and both enqueue steps run before the dispatch node, under every
\* schedule the system ordering permits; nothing enqueues or clears after a
\* dispatch of the same frame.
C5_ClearThenEnqueueThenDispatch ==
    \A i \in DOMAIN frameLog :
        /\ frameLog[i] \in {"inputs", "requeue"}
            => \E j \in 1..(i - 1) : frameLog[j] = "clear"
        /\ frameLog[i] = "node"
            => /\ \A e \in {"clear", "inputs", "requeue"} :
                    \E j \in 1..(i - 1) : frameLog[j] = e
               /\ \A j \in (i + 1)..Len(frameLog) : frameLog[j] = "node"

C5_Witness ==
    /\ GraphDone
    /\ jobs # << >>
    /\ Cardinality({ i \in DOMAIN frameLog : frameLog[i] = "node" }) = 2

\* C6: a run of the dispatch node while the compute pipeline is not compiled,
\* or while the parameter uniform binding is absent, returns Ok having opened
\* no compute pass, created no bind group and issued no dispatch, even with a
\* non-empty queue.
C6_NotReadyEmitsNothing ==
    \A v \in Cameras :
        /\ nodeResult[v].status \in {"pending", "Ok"}
        /\ (nodeResult[v].status = "Ok" /\ (pipelineState # "Ready" \/ ~uniformReady))
            => /\ nodeResult[v].passes = 0
               /\ nodeResult[v].bind_groups = 0
               /\ nodeResult[v].dispatches = << >>

C6_Witness ==
    /\ jobs # << >>
    /\ nodeResult["cam1"].status = "Ok"
    /\ nodeResult["cam2"].status = "Ok"
    /\ pipelineState = "Ready"
    /\ ~uniformReady

\* Spawn Commands queued for source s and not yet applied.
SpawnsPending(s) ==
    Cardinality({ i \in DOMAIN mainCmds :
                    mainCmds[i].op = "spawn" /\ mainCmds[i].target = s })

LinksPending(s) ==
    Cardinality({ i \in DOMAIN mainCmds :
                    mainCmds[i].op = "MeshToGaussianCloud" /\ mainCmds[i].target = s })

MarksPending(s) ==
    Cardinality({ i \in DOMAIN mainCmds :
                    mainCmds[i].op = "ConvertedOnce" /\ mainCmds[i].target = s })

\* C7: a source with realtime = false that has been processed (its mesh was
\* loaded when the Update schedule of a frame ran) carries ConvertedOnce once
\* that schedule is finished; and from the moment it carries the marker no
\* step spawns a cloud for it, queues a spawn or a link for it, changes its
\* visibility, replaces its MeshToGaussianCloud link or removes the marker,
\* whatever its mesh becomes.
C7_ConvertedOnceIsFinal ==
    /\ [](\A s \in Sources :
            (phase # "main" /\ ~config[s].realtime /\ mesh[s].kind = "loaded")
                => converted[s])
    /\ [][\A s \in Sources :
            (~config[s].realtime /\ converted[s])
                => /\ converted'[s]
                   /\ CloudsOf(s)' = CloudsOf(s)
                   /\ SpawnsPending(s)' = 0
                   /\ LinksPending(s)' = 0
                   /\ visibility'[s] = visibility[s]
                   /\ cloudLink'[s] = cloudLink[s]]_vars

C7_Witness ==
    /\ frame = 2
    /\ "process" \in updateDone
    /\ "assets" \in updateDone
    /\ ~config["s1"].realtime
    /\ converted["s1"]
    /\ mesh["s1"] = Mesh("loaded", "Float32x3", 4, TRUE, 6)
    /\ CloudsOf("s1") = {1}
    /\ clouds[1].tri_count = 1

\* A loaded mesh without Float32x3 positions, or with fewer than 3 indices.
Malformed(m) ==
    /\ m.kind = "loaded"
    /\ \/ m.attr # "Float32x3"
       \/ (IF m.indexed THEN m.idx ELSE m.verts) < 3

WellFormed(m) ==
    /\ m.kind = "loaded"
    /\ m.attr = "Float32x3"
    /\ (IF m.indexed THEN m.idx ELSE m.verts) >= 3

\* C8: when process_new_meshes_for_gpu_conversion runs over a source whose
\* loaded mesh has zero triangles or no Float32x3 positions, it creates no
\* cloud asset and queues no spawn and no link for it (assets are added for
\* the well-formed sources only); it queues ConvertedOnce for it exactly when
\* realtime is false, so that after the Update schedule a non-realtime
\* malformed source is marked and a realtime one is still unmarked, to be
\* examined again in the next frame.
C8_MalformedIsSkipped ==
    /\ [][("process" \notin updateDone /\ "process" \in updateDone')
            => /\ Len(assets') - Len(assets) =
                    Cardinality({ s \in Sources : ~converted[s] /\ WellFormed(mesh[s]) })
               /\ \A s \in Sources :
                    (~converted[s] /\ Malformed(mesh[s]))
                        => /\ SpawnsPending(s)' = SpawnsPending(s)
                           /\ LinksPending(s)' = LinksPending(s)
                           /\ MarksPending(s)' - MarksPending(s) =
                                (IF config[s].realtime THEN 0 ELSE 1)]_vars
    /\ [](\A s \in Sources :
            (phase # "main" /\ Malformed(mesh[s]))
                => (converted[s] <=> ~config[s].realtime))

C8_Witness ==
    /\ frame = 2
    /\ phase = "assets"
    /\ config["s1"].realtime
    /\ Malformed(mesh["s1"]) /\ ~converted["s1"]
    /\ Malformed(mesh["s2"]) /\ converted["s2"]
    /\ assets = << >>
    /\ clouds = << >>

\* ceil(T / K), stated without the code's arithmetic
CeilDiv(T, K) == CHOOSE n \in 0..T : n * K >= T /\ (n - 1) * K < T

\* C9: for every cloud with T >= 1 triangles the workgroup count of its jobs
\* is (ceil(T / 64), 1, 1): 1 for T in 1..64, 2 for T = 65; the count kept in
\* TriToSplatGpu, which every re-enqueued job uses, is the same.
C9_WorkgroupsAreCeilOfTrianglesBy64 ==
    /\ \A i \in DOMAIN jobs :
        LET T == clouds[JobEntity(jobs[i])].tri_count
        IN  T >= 1 =>
                /\ jobs[i].workgroups = << CeilDiv(T, 64), 1, 1 >>
                /\ T <= 64 => jobs[i].workgroups[1] = 1
                /\ T = 65 => jobs[i].workgroups[1] = 2
    /\ \A c \in DOMAIN clouds :
        (gpu[c].present /\ clouds[c].tri_count >= 1)
            => gpu[c].workgroups = << CeilDiv(clouds[c].tri_count, 64), 1, 1 >>

C9_Witness ==
    /\ frame = 2
    /\ PrepareDone
    /\ uploads[1] = 1
    /\ clouds[1].tri_count = 65
    /\ \E i \in DOMAIN jobs : jobs[i].workgroups = << 2, 1, 1 >>

\* C10: no job in the queue was built for an input with tri_count = 0, and
\* no cloud entity carries a TriToSplatCpuInput with tri_count = 0.
C10_NoJobForZeroTriangles ==
    /\ \A c \in DOMAIN clouds : clouds[c].tri_count >= 1
    /\ \A i \in DOMAIN jobs : clouds[JobEntity(jobs[i])].tri_count # 0

C10_Witness ==
    /\ jobs # << >>
    /\ PrepareDone
    /\ \E s \in Sources :
        /\ mesh[s] = Mesh("loaded", "Float32x3", 2, FALSE, 0)
        /\ CloudsOf(s) = {}

\* C11: for each cloud entity the inputs upload (the three buffers and the
\* inputs bind group) happens exactly once over all frames: once
\* queue_tri_to_splat_inputs has run in a frame, the entities uploaded so far
\* are exactly those that have a CPU input and a storage binding, each
\* uploaded once; and from the moment an entity carries TriToSplatGpu no step
\* uploads for it again or replaces its TriToSplatGpu.
C11_InputsUploadedOnce ==
    /\ [](\A c \in CloudIds : uploads[c] <= 1)
    /\ []((phase = "render" /\ Ran("inputs")) =>
            \A c \in CloudIds :
                uploads[c] = (IF c \in extracted /\ rwBinding[c] # 0 THEN 1 ELSE 0))
    /\ [][\A c \in CloudIds :
            gpu[c].present => (uploads'[c] = uploads[c] /\ gpu'[c] = gpu[c])]_vars

C11_Witness ==
    /\ frame = 2
    /\ PrepareDone
    /\ uploads[1] = 1
    /\ JobsOf(1) = 1

\* A job built from resources that exist, all of one entity: a storage bind
\* group created for the entity from instantiated storage, and the inputs
\* bind group of an upload made for the same entity.
JobResourcesComplete(job) ==
    LET c == JobEntity(job)
    IN  /\ c \in extracted
        /\ job.planar_rw_bg.entity = c
        /\ c \in storageReady
        /\ job.planar_rw_bg.n >= 1 /\ job.planar_rw_bg.n <= rwBinding[c]
        /\ job.inputs_bg.n >= 1 /\ job.inputs_bg.n <= uploads[c]

\* C12: every job in the queue, and every job a run of the node dispatched,
\* refers to fully created resources of one and the same entity: the entity's
\* GPU storage is instantiated, its storage bind group was created, and its
\* inputs were uploaded; no job exists for an entity without storage or
\* without uploaded inputs.
C12_JobsReferToCompleteResources ==
    /\ \A i \in DOMAIN jobs : JobResourcesComplete(jobs[i])
    /\ \A v \in Cameras : \A i \in DOMAIN nodeResult[v].dispatches :
            JobResourcesComplete(nodeResult[v].dispatches[i])
    /\ \A c \in CloudIds : (c \notin storageReady \/ uploads[c] = 0) => JobsOf(c) = 0

C12_Witness ==
    /\ \E v \in Cameras : nodeResult[v].dispatches # << >>
    /\ \E c \in extracted : c \notin storageReady

Unready(m) == m.kind \in {"none", "unloaded"}

\* C13: deferred readiness is not fatal and gets resolved. Safety: a step
\* taken while a not yet marked source has no descendant mesh, or an unloaded
\* one, neither marks it ConvertedOnce nor queues the marker or a spawn for
\* it, for as many frames as this lasts. Liveness, with the frame loop
\* running: once the mesh of an unmarked source is loaded with Float32x3
\* positions and T >= 1 triangles, a cloud entity for that source eventually
\* exists.
C13_DeferredThenConverted ==
    /\ [][\A s \in Sources :
            (Unready(mesh[s]) /\ ~converted[s] /\ MarksPending(s) = 0)
                => /\ ~converted'[s]
                   /\ MarksPending(s)' = 0
                   /\ SpawnsPending(s)' = 0
                   /\ CloudsOf(s)' = CloudsOf(s)]_vars
    /\ \A s \in Sources :
            (WellFormed(mesh[s]) /\ ~converted[s]) ~> (CloudsOf(s) # {})

\* s2 went through frame 1 without a usable mesh and is converted in frame 2,
\* while s1 is still waiting.
C13_Witness ==
    /\ frame = 2
    /\ WellFormed(mesh["s2"])
    /\ SpawnsPending("s2") = 1
    /\ clouds = << >>
    /\ Unready(mesh["s1"])
    /\ ~converted["s1"]

\* C14: a cloud entity whose GPU storage is not instantiated has no storage
\* binding (and the frame goes on: the system ran, the node returns Ok); once
\* queue_planar_cloud_rw_bind_group has run in a frame, the entities with a
\* storage binding are exactly those whose storage is available, so the
\* binding is attached in the first frame the storage is reported; the bind
\* group covers the four storage fields of the cloud; and in every frame from
\* the upload of its inputs on, the entity has a job after the prepare phase.
C14_StorageBindingFollowsStorage ==
    /\ \A c \in CloudIds : c \notin storageReady => rwBinding[c] = 0
    /\ (phase = "render" /\ Ran("planar")) =>
            \A c \in extracted : (rwBinding[c] >= 1 <=> c \in storageReady)
    /\ \A v \in Cameras : nodeResult[v].status \in {"pending", "Ok"}
    /\ Len(StorageBindGroupEntries) = 4
    /\ { StorageBindGroupEntries[k] : k \in 1..4 }
            = DOMAIN PlanarGaussian3d(<< >>, << >>, << >>, << >>)
    /\ PrepareDone => \A c \in CloudIds : uploads[c] >= 1 => JobsOf(c) >= 1

\* Cloud 1 was extracted in frame 1 without storage and gets its first binding
\* in frame 2; cloud 2 has no storage yet and no binding.
C14_Witness ==
    /\ frame = 2
    /\ GraphDone
    /\ rwBinding[1] = 1
    /\ 2 \in extracted
    /\ 2 \notin storageReady
    /\ rwBinding[2] = 0

DispatchedFor(v, c) ==
    \E i \in DOMAIN nodeResult[v].dispatches : JobEntity(nodeResult[v].dispatches[i]) = c

\* C15: in every frame, after the prepare phase the queue again holds a job
\* for every entity that has both an inputs binding and a storage binding,
\* whether it got them in this frame or in an earlier one; and every run of
\* the node for a view, with the pipeline Ready and the parameter binding
\* present, dispatches a job of each such entity.
C15_ReadyEntitiesDispatchedEveryFrame ==
    /\ PrepareDone => \A c \in ReadyEntities : JobsOf(c) >= 1
    /\ \A v \in Cameras :
        (nodeResult[v].status = "Ok" /\ pipelineState = "Ready" /\ uniformReady)
            => \A c \in ReadyEntities : DispatchedFor(v, c)

\* Frame 2, cloud 1 uploaded in frame 1: its only job comes from the requeue.
C15_Witness ==
    /\ frame = 2
    /\ GraphDone
    /\ pipelineState = "Ready"
    /\ uniformReady
    /\ uploads[1] = 1
    /\ Len(nodeResult["cam1"].dispatches) = 1
    /\ DispatchedFor("cam1", 1)

\* Jobs built in the current frame hold the storage bind group created by this
\* frame's queue_planar_cloud_rw_bind_group (a new one every frame); a job of
\* an earlier frame holds an older one.
BuiltThisFrame(job) == job.planar_rw_bg.n = rwBinding[JobEntity(job)]

\* C16: jobs are ephemeral. The clear step of a frame leaves the queue empty,
\* whatever the previous frame left in it; within a render frame nothing is
\* enqueued or dispatched before the clear; and every job a run of the node
\* dispatched was built during the prepare phase of the same frame, so no job
\* enqueued in one frame is dispatched in a later one.
C16_JobsAreEphemeral ==
    /\ [][(~Ran("clear") /\ Ran("clear")') => jobs' = << >>]_vars
    /\ []((phase = "render" /\ ~Ran("clear")) =>
            /\ ~Ran("inputs") /\ ~Ran("requeue") /\ ~Ran("node")
            /\ \A v \in Cameras : nodeResult[v].status = "pending")
    /\ []((phase = "render" /\ Ran("clear")) => \A i \in DOMAIN jobs : BuiltThisFrame(jobs[i]))
    /\ [](\A v \in Cameras : \A i \in DOMAIN nodeResult[v].dispatches :
            BuiltThisFrame(nodeResult[v].dispatches[i]))

\* Frame 2 right after the clear: the jobs frame 1 left in the queue are gone.
C16_Witness ==
    /\ frame = 2
    /\ phase = "render"
    /\ frameLog = << "clear" >>
    /\ gpu[1].present
    /\ jobs = << >>

\* The loop body got as far as creating the cloud asset.
CloudAssetCreated == conv.pc \in {"seeding", "seeded", "spawned", "panicked"}

\* C17: for a cloud asset created by process_new_meshes_for_gpu_conversion the
\* four sequences position_visibility, spherical_harmonic, rotation and
\* scale_opacity all have length tri_count, when the asset is created, after
\* each turn of the centroid-seeding loop and once the cloud is spawned; the
\* seeding writes entries i < tri_count only.
C17_FourSequencesOfLengthTriCount ==
    CloudAssetCreated =>
        /\ conv.tri_count >= 1
        /\ Len(conv.cloud_asset.position_visibility) = conv.tri_count
        /\ Len(conv.cloud_asset.spherical_harmonic) = conv.tri_count
        /\ Len(conv.cloud_asset.rotation) = conv.tri_count
        /\ Len(conv.cloud_asset.scale_opacity) = conv.tri_count
        /\ conv.i <= conv.tri_count

\* Two triangles seeded, plus a remainder index the loop breaks on.
C17_Witness ==
    /\ conv.pc = "spawned"
    /\ conv.tri_count = 2
    /\ Len(conv.indices) > 6
    /\ \A k \in 1..2 : conv.cloud_asset.position_visibility[k].visibility = 1

\* floor(n / 3), stated without the code's arithmetic
FloorThird(n) == CHOOSE t \in 0..n : 3 * t <= n /\ n < 3 * (t + 1)

\* The number of triangles of the mesh being converted: from the index buffer
\* when there is one, from the vertex count otherwise.
MeshTriangles ==
    FloorThird(IF conv.mesh_indices.kind = "None"
               THEN Len(conv.pos) ELSE Len(conv.mesh_indices.xs))

\* C18: for a mesh with T triangles, T = floor(indices.len() / 3) for an
\* indexed mesh and floor(vertex_count / 3) for a mesh without index buffer,
\* the tri_count computed is T, the cloud asset created has exactly T entries
\* in each sequence and the TriToSplatCpuInput spawned carries tri_count = T
\* (no asset and no input when T = 0).
C18_CloudHasOneEntryPerTriangle ==
    /\ conv.pc \notin {"idle", "start"} => conv.tri_count = MeshTriangles
    /\ conv.pc = "skipped" <=> (conv.pc # "start" /\ conv.pc # "idle" /\ MeshTriangles = 0)
    /\ CloudAssetCreated =>
            /\ Len(conv.cloud_asset.position_visibility) = MeshTriangles
            /\ Len(conv.cloud_asset.spherical_harmonic) = MeshTriangles
            /\ Len(conv.cloud_asset.rotation) = MeshTriangles
            /\ Len(conv.cloud_asset.scale_opacity) = MeshTriangles
    /\ conv.input.present => conv.input.tri_count = MeshTriangles

\* Four vertices without index buffer: one triangle, one vertex left over.
C18_Witness ==
    /\ conv.pc = "spawned"
    /\ conv.mesh_indices.kind = "None"
    /\ Len(conv.pos) = 4
    /\ conv.input.tri_count = 1
    /\ Len(conv.cloud_asset.position_visibility) = 1

\* C19: every TriToSplatCpuInput captured by
\* process_new_meshes_for_gpu_conversion satisfies
\* indices.len() == 3 * tri_count, whatever the length of the index buffer or
\* the vertex count of the source mesh.
C19_IndicesAreThreePerTriangle ==
    conv.input.present => Len(conv.input.indices) = 3 * conv.input.tri_count

\* C20: when the mesh has no index buffer the captured indices are exactly
\* 0, 1, ..., vertex_count - 1; a 16-bit index buffer is captured with the
\* same length and the same value at every position; the TriToSplatCpuInput
\* spawned carries these indices.
C20_ImplicitAndWidenedIndices ==
    /\ conv.pc \notin {"idle", "start"} =>
        /\ conv.mesh_indices.kind = "None" =>
                /\ Len(conv.indices) = Len(conv.pos)
                /\ \A k \in 1..Len(conv.pos) : conv.indices[k] = k - 1
        /\ conv.mesh_indices.kind = "U16" =>
                /\ Len(conv.indices) = Len(conv.mesh_indices.xs)
                /\ \A k \in 1..Len(conv.mesh_indices.xs) :
                        conv.indices[k] = conv.mesh_indices.xs[k]
    /\ conv.input.present => conv.input.indices = conv.indices

\* A 16-bit buffer holding the largest 16-bit index (in the leftover position).
C20_Witness ==
    /\ conv.input.present
    /\ conv.mesh_indices.kind = "U16"
    /\ \E k \in DOMAIN conv.mesh_indices.xs : conv.mesh_indices.xs[k] = U16Range - 1
    /\ \E k \in DOMAIN conv.mesh_indices.xs : conv.mesh_indices.xs[k] = 2

\* Vertex j (counted from 0) of the mesh being converted.
Vertex(j) == conv.pos[j + 1]

\* p is the centroid of vertices a, b, c: 3 * p = a + b + c, coordinate by
\* coordinate (p is num / den).
IsCentroidOf(p, a, b, c) ==
    \A x \in 1..3 : 3 * p.num[x] = p.den * (Vertex(a)[x] + Vertex(b)[x] + Vertex(c)[x])

\* The identity rotation, scalar first or scalar last.
IdentityRotations == { << 1, 0, 0, 0 >>, << 0, 0, 0, 1 >> }

\* C21: the mesh with 4 vertices and index buffer [0,1,2,2,1,3] produces a
\* cloud of length 2 whose splat 0 lies at the centroid of vertices {0,1,2}
\* and splat 1 at the centroid of {2,1,3}, both with rotation = identity and
\* opacity = 1.0.
C21_QuadGivesTwoCentredIdentitySplats ==
    (conv.pc = "spawned" /\ Len(conv.pos) = 4 /\ conv.mesh_indices.xs = QuadIndices) =>
        /\ Len(conv.cloud_asset.position_visibility) = 2
        /\ IsCentroidOf(conv.cloud_asset.position_visibility[1].position, 0, 1, 2)
        /\ IsCentroidOf(conv.cloud_asset.position_visibility[2].position, 2, 1, 3)
        /\ \A k \in 1..2 :
            /\ conv.cloud_asset.rotation[k].rotation \in IdentityRotations
            /\ conv.cloud_asset.scale_opacity[k].opacity = 1

Occurrences(q, x) == Cardinality({ i \in DOMAIN q : q[i] = x })

\* The same jobs the same number of times, in whatever order.
SameMultiset(q1, q2) ==
    /\ Len(q1) = Len(q2)
    /\ \A i \in DOMAIN q1 : Occurrences(q1, q1[i]) = Occurrences(q2, q1[i])

\* C23: the outcome of a prepare system does not depend on the order in
\* which its query yields the entities. In every state in which
\* queue_tri_to_splat_inputs is about to run, any two iteration orders leave
\* the same entities with the same TriToSplatGpu, the same uploads and the
\* same multiset of jobs; in every state in which
\* requeue_existing_tri_to_splat_jobs is about to run, any two iteration
\* orders leave the same multiset of jobs in the queue.
C23_IterationOrderIsNotSignificant ==
    /\ CanRun("inputs") =>
        \A o1, o2 \in Orders({ c \in extracted : rwBinding[c] # 0 }) :
            LET start == [jobs |-> jobs, uploads |-> uploads, gpu |-> gpu]
                r1 == QueueInputsLoop(o1, 1, start)
                r2 == QueueInputsLoop(o2, 1, start)
            IN  /\ r1.gpu = r2.gpu
                /\ r1.uploads = r2.uploads
                /\ SameMultiset(r1.jobs, r2.jobs)
    /\ CanRun("requeue") =>
        \A o1, o2 \in Orders({ c \in extracted : gpu[c].present /\ rwBinding[c] # 0 }) :
            SameMultiset(RequeueLoop(o1, 1, jobs), RequeueLoop(o2, 1, jobs))

\* Frame 2: both clouds were uploaded in this frame, in one of two orders.
C23_Witness ==
    /\ frame = 2
    /\ PrepareDone
    /\ JobsOf(1) = 2
    /\ JobsOf(2) = 2
    /\ jobs[1] # jobs[2]

\* C24: whenever a job for a cloud with T triangles is dispatched for a view,
\* the TriToSplatParams extracted for that view holds gaussian_count >= T,
\* under every interleaving of process_new_meshes_for_gpu_conversion and
\* update_tri_to_splat_params and whatever gaussian_count the user set on the
\* camera.
C24_GaussianCountCoversDispatchedClouds ==
    \A v \in Cameras : \A i \in DOMAIN nodeResult[v].dispatches :
        viewParams[v].gaussian_count
            >= clouds[JobEntity(nodeResult[v].dispatches[i])].tri_count

\* ---------------------------------------------------------------------- C25
IsMaxTriCount(g, cs) ==
    /\ \E i \in DOMAIN cs : cs[i].tri_count = g
    /\ \A i \in DOMAIN cs : cs[i].tri_count <= g

ParamsCommandsApplied ==
    /\ phase = "main"
    /\ "params" \in updateDone
    /\ mainCmds # << >>
    /\ mainCmds' = << >>

NodeBound(v) == nodeResult[v].params_ix.bound

UniformOffsets(fields) == [k \in DOMAIN fields |-> OffsetIn(fields, k, TRUE)]

\* C26: once the pipeline resource exists, the per-view parameter struct laid
\* out under uniform-buffer rules has its fields (u32, f32, f32, f32,
\* vec3<f32>, f32) at offsets 0, 4, 8, 12, 16, 28, each a multiple of the
\* field's alignment; its size is 32 bytes, a multiple of 16, and equals the
\* min_binding_size declared in the params layout.
C26_ParamsStructIs32Bytes ==
    pipe.present =>
        /\ UniformOffsets(ParamsFields) = << 0, 4, 8, 12, 16, 28 >>
        /\ \A k \in DOMAIN ParamsFields :
                UniformOffsets(ParamsFields)[k] % ParamsFields[k].align = 0
        /\ UniformSize(ParamsFields) = 32
        /\ UniformSize(ParamsFields) % 16 = 0
        /\ pipe.params_layout.min_binding_size = UniformSize(ParamsFields)

\* The layout was created and a view's params were bound through it.
C26_Witness ==
    /\ pipe.present
    /\ pipe.params_layout.has_dynamic_offset
    /\ \E v \in Cameras : NodeBound(v)

\* ---------------------------------------------------------------------- C27
\* C27: the compute pipeline is queued exactly once, by the plugin's finish:
\* from the first frame on the TriToSplatPipeline resource exists with its
\* pipeline id and three layouts, exactly one pipeline has been queued, no
\* step after finish changes the resource or queues again, and with the
\* pipeline not Ready the node still returns Ok for every view and the frame
\* ends.
C27_PipelineQueuedOnceAtFinish ==
    /\ [](phase = "startup" => ~pipe.present /\ pipe.queued = 0)
    /\ [](phase # "startup" =>
            /\ pipe.present
            /\ pipe.queued = 1
            /\ pipe.pipeline = 1
            /\ pipe.inputs_layout # "none"
            /\ pipe.planar_rw_layout # "none"
            /\ pipe.params_layout.has_dynamic_offset)
    /\ [][phase # "startup" => pipe' = pipe]_vars
    /\ [][(\E view \in Cameras : TriToSplatNode_run(view)) /\ pipelineState # "Ready"
            => \A v \in Cameras :
                    nodeResult'[v].status # nodeResult[v].status
                        => nodeResult'[v].status = "Ok" /\ nodeResult'[v].passes = 0]_vars
    /\ [](phase = "render" /\ (\A sys \in RenderSystems : Ran(sys))
            /\ pipelineState # "Ready"
            => \/ \E view \in Cameras : ENABLED TriToSplatNode_run(view)
               \/ GraphDone)
    /\ [](GraphDone /\ frame < MaxFrames => ENABLED EndFrame)

\* In the second frame the pipeline is still compiling and the node ran for
\* a view without it.
C27_Witness ==
    /\ frame = 2
    /\ pipe.present
    /\ pipelineState = "Compiling"
    /\ phase = "render"
    /\ \E v \in Cameras : nodeResult[v].status = "Ok" /\ nodeResult[v].passes = 0

\* ---------------------------------------------------------------------- C28
\* C28: triangles_from yields floor(len / 3) triangles, the k-th being
\* (indices[3k], indices[3k+1], indices[3k+2]), for TriangleList and, with a
\* warning, for every other topology; a trailing group of fewer than 3
\* indices is dropped, and no chunk is read past its end.
C28_TrianglesAreFullChunks ==
    call.fn = "triangles_from" =>
        /\ call.pc # "panicked"
        /\ call.pc \in {"iter", "done"} =>
                (call.warned <=> call.topology # "TriangleList")
        /\ Len(call.out) <= FloorThird(Len(call.indices))
        /\ \A k \in DOMAIN call.out :
                call.out[k] = << call.indices[3 * k - 2], call.indices[3 * k - 1],
                                 call.indices[3 * k] >>
        /\ call.pc = "done" => Len(call.out) = FloorThird(Len(call.indices))

\* A strip with seven indices was chunked: two triangles, one index dropped,
\* the warning given.
C28_Witness ==
    /\ call.fn = "triangles_from"
    /\ call.pc = "done"
    /\ call.topology = "TriangleStrip"
    /\ call.warned
    /\ Len(call.indices) % 3 = 1
    /\ Len(call.out) = 2
    /\ call.out[1] # call.out[2]

\* ---------------------------------------------------------------------- C29
InterpolatedAt(i) ==
    LET a == call.cloud_a[(i % Len(call.cloud_a)) + 1]
        b == call.cloud_b[(i % Len(call.cloud_b)) + 1]
        t2 == Clamp01(call.t)
    IN  [position |-> a.position * (2 - t2) + b.position * t2,
         opacity |-> a.opacity * (2 - t2) + b.opacity * t2,
         den |-> 2]

\* C29: interpolate_clouds(a, b, t) completes for every pair of input lengths
\* and returns max(len(a), len(b)) elements, the i-th interpolated between
\* a[i mod len(a)] and b[i mod len(b)].
C29_InterpolateCompletesForAllLengths ==
    call.fn = "interpolate_clouds" =>
        /\ call.pc # "panicked"
        /\ call.pc = "returned" =>
                /\ Len(call.result) = Max(Len(call.cloud_a), Len(call.cloud_b))
                /\ \A k \in DOMAIN call.result : call.result[k] = InterpolatedAt(k - 1)

\* ---------------------------------------------------------------------- C30
\* C30: the conversion of a loaded mesh never reads a vertex position out of
\* range and never panics, whatever its index buffer holds: every index the
\* seeding loop reads is below the vertex count.
C30_ConversionNeverPanics ==
    /\ conv.pc # "panicked"
    /\ conv.pc = "seeding" =>
            \A k \in DOMAIN Chunk(conv.indices, conv.i) :
                Len(Chunk(conv.indices, conv.i)) = 3 /\ conv.i < conv.tri_count
                    => InBounds(conv.positions, Chunk(conv.indices, conv.i)[k])

\* ---------------------------------------------------------------------- C31
\* x * 64 for x < 2^26, by halves
TimesWorkgroupSize(x) ==
    U32(x \div (U16Range \div WorkgroupSize),
        (x % (U16Range \div WorkgroupSize)) * WorkgroupSize)

U32AtLeast(a, b) == a.hi > b.hi \/ (a.hi = b.hi /\ a.lo >= b.lo)

\* C31: for every tri_count of 32 bits the workgroup computation completes
\* and its x covers the triangles: x * 64 >= tri_count, the addition
\* tri_count + 63 never wrapping around.
C31_WorkgroupsCoverEveryU32 ==
    call.fn = "workgroups" =>
        /\ call.pc # "panicked"
        /\ call.pc \in {"x", "done"} =>
                U32AtLeast(TimesWorkgroupSize(call.x), call.tri_count)

\* ---------------------------------------------------------------------- C32
\* The Update schedule of the frame is over and its Commands are applied.
UpdateDone == phase # "main" /\ phase # "startup"

\* C32: after every frame the linkage is mutually consistent: the source of
\* every cloud entity carries MeshToGaussianCloud with that cloud's handle,
\* and every MeshToGaussianCloud(h) is matched by exactly one cloud entity
\* with handle h, whose CloudOf names the source.
C32_LinkageIsMutuallyConsistent ==
    UpdateDone =>
        /\ \A c \in DOMAIN clouds : cloudLink[clouds[c].cloudOf] = clouds[c].handle
        /\ \A s \in Sources : cloudLink[s] # 0 =>
                /\ Cardinality({ c \in DOMAIN clouds : clouds[c].handle = cloudLink[s] }) = 1
                /\ \A c \in DOMAIN clouds :
                        clouds[c].handle = cloudLink[s] => clouds[c].cloudOf = s

\* ---------------------------------------------------------------------- C33
RECURSIVE IsUnder(_, _, _)
IsUnder(parent, e, root) ==
    e = root \/ (parent[e] # 0 /\ IsUnder(parent, parent[e], root))

MeshWithTransformUnder(c) ==
    \E e \in Entities : IsUnder(c.parent, e, 1) /\ e \in c.mesh_3d /\ e \in c.transform

\* C33: on every finite acyclic hierarchy the search returns, visiting no
\* entity twice and only the root and its descendants; it returns Some
\* exactly when the root or a descendant carries both Mesh3d and
\* GlobalTransform, and then an entity that carries both; an entity with a
\* Mesh3d and no GlobalTransform is passed over and its children searched.
C33_FindReturnsIffMeshWithTransform ==
    /\ <>(call.pc = "returned")
    /\ [](call.fn = "find_descendant_mesh_with_transform" =>
            /\ \A i, j \in DOMAIN call.popped : call.popped[i] = call.popped[j] => i = j
            /\ \A i \in DOMAIN call.popped : IsUnder(call.parent, call.popped[i], 1)
            /\ call.pc = "returned" =>
                    /\ call.result.some <=> MeshWithTransformUnder(call)
                    /\ call.result.some =>
                            /\ call.result.entity \in call.mesh_3d \cap call.transform
                            /\ IsUnder(call.parent, call.result.entity, 1))
    /\ [][\A e \in Entities :
            (call.pc = "loop" /\ call.stack # << >> /\ call.stack[Len(call.stack)] = e
                /\ e \in call.mesh_3d /\ e \notin call.transform)
            => /\ call'.pc = "loop"
               /\ \A k \in Entities : call.parent[k] = e =>
                    \E i \in DOMAIN call'.stack : call'.stack[i] = k]_vars

\* The root has a Mesh3d and no GlobalTransform; the search went on into its
\* children and returned a grandchild that carries both.
C33_Witness ==
    /\ call.fn = "find_descendant_mesh_with_transform"
    /\ call.pc = "returned"
    /\ 1 \in call.mesh_3d /\ 1 \notin call.transform
    /\ call.result.some
    /\ call.parent[call.result.entity] # 0
    /\ call.parent[call.result.entity] # 1
    /\ Len(call.popped) >= 3

\* ---------------------------------------------------------------------- C34
\* The distinct undirected edges among the triangles of the index buffer.
UndirectedEdges(ix) ==
    { {ix[3 * k - 2], ix[3 * k - 1]} : k \in 1..FloorThird(Len(ix)) }
        \cup { {ix[3 * k - 1], ix[3 * k]} : k \in 1..FloorThird(Len(ix)) }
        \cup { {ix[3 * k], ix[3 * k - 2]} : k \in 1..FloorThird(Len(ix)) }

Count(n, included) == IF included THEN n ELSE 0

ExpectedSplats(c) ==
    IF ~c.positions.present THEN 0
    ELSE IF ~c.indices.present THEN Count(c.positions.len, c.settings.include_vertices)
    ELSE Count(c.positions.len, c.settings.include_vertices)
            + Count(FloorThird(Len(c.indices.ix)), c.settings.include_faces)
            + Count(Cardinality(UndirectedEdges(c.indices.ix)), c.settings.include_edges)

\* C34: mesh_to_gaussians returns V*[include_vertices] + F*[include_faces]
\* + E*[include_edges] gaussians for an indexed mesh (F = floor(index_count
\* / 3), E the distinct undirected edges of those triangles), the V vertex
\* gaussians alone for a mesh without index buffer, and none for a mesh
\* without positions; the call returns for every mesh.
C34_SplatCountIsVerticesFacesEdges ==
    call.fn = "mesh_to_gaussians" =>
        /\ call.pc # "panicked"
        /\ call.pc = "returned" => Len(call.out) = ExpectedSplats(call)

\* ---------------------------------------------------------------------- C35
\* The step of apply_edits.
ApplyEditsStep == voxel'.ran = voxel.ran \cup {"apply_edits"} /\ "apply_edits" \notin voxel.ran

\* The places of the batch that name position p.
OpsAt(ops, p) == { i \in 1..Len(ops) : ops[i].p = p }

LastOpAt(ops, p) == ops[CHOOSE i \in OpsAt(ops, p) : \A j \in OpsAt(ops, p) : j <= i]

InRangePositions == { p \in EditPositions : \A c \in {p.x, p.y, p.z} : c \in 0..(ChunkSize - 1) }

\* C35: apply_edits applies the operations in the order they were queued: a
\* position the batch names ends as its last operation leaves it (set with
\* material 1 after Set, unset after Clear) and a position it does not name
\* is as before; after a non-empty batch the batch is empty, VoxelWorld.dirty
\* is true and Metrics.edits_applied has grown by the number of operations.
C35_ApplyEditsInQueueOrder ==
    [][ (ApplyEditsStep /\ voxel.batch # << >>) =>
          /\ voxel'.batch = << >>
          /\ voxel'.world.dirty
          /\ voxel'.metrics.edits_applied = voxel.metrics.edits_applied + Len(voxel.batch)
          /\ \A p \in InRangePositions :
                chunk_get(voxel'.world.chunk, p) =
                    IF OpsAt(voxel.batch, p) = {} THEN chunk_get(voxel.world.chunk, p)
                    ELSE IF LastOpAt(voxel.batch, p).op = "Set" THEN Some(VoxelData(1, 0))
                    ELSE None ]_vars

\* Set(p) then Clear(p) was drained from the batch and p is unset, though it
\* was set by the frame before.
C35_Witness ==
    /\ voxel.drained = << EditOp_Set(IVec3(31, 31, 31)), EditOp_Clear(IVec3(31, 31, 31)) >>
    /\ voxel.frame = 1
    /\ ~chunk_is_set(voxel.world.chunk, IVec3(31, 31, 31))
    /\ voxel.world.dirty
    /\ voxel.metrics.edits_applied = 3

\* ---------------------------------------------------------------------- C36
\* The step of extract_surface.
ExtractSurfaceStep ==
    voxel'.ran = voxel.ran \cup {"extract_surface"} /\ "extract_surface" \notin voxel.ran

\* C36: apply_edits on an empty batch leaves the chunk, VoxelWorld.dirty and
\* Metrics.edits_applied (and every other resource) as they were, and in a
\* frame whose apply_edits found the batch empty extract_surface leaves the
\* SurfaceBuffer and the instance count as they were: nothing is re-extracted.
C36_EmptyBatchChangesNothing ==
    [][ /\ (ApplyEditsStep /\ voxel.batch = << >>) =>
              /\ voxel'.world = voxel.world
              /\ ~voxel'.world.dirty
              /\ voxel'.metrics = voxel.metrics
              /\ voxel'.surface = voxel.surface
              /\ voxel'.batch = << >>
        /\ (ExtractSurfaceStep /\ voxel.drained = << >>) =>
              /\ voxel'.surface = voxel.surface
              /\ ~voxel'.surface.dirty
              /\ voxel'.metrics = voxel.metrics
              /\ voxel'.world = voxel.world ]_vars

\* The second frame ran apply_edits on an empty batch and then
\* extract_surface, with one voxel set by the first frame and an edit queued
\* for the third: the one instance of the first frame is still there.
C36_Witness ==
    /\ voxel.frame = 1
    /\ {"apply_edits", "extract_surface"} \subseteq voxel.ran
    /\ voxel.drained = << >>
    /\ voxel.metrics.edits_applied = 1
    /\ chunk_count(voxel.world.chunk) = 1
    /\ Len(voxel.surface.instances) = 1
    /\ voxel.batch = << EditOp_Clear(IVec3(0, 0, 0)) >>
    /\ ~voxel.world.dirty

\* ---------------------------------------------------------------------- C38
\* Every system of the Update chain has run in the frame.
VoxelFrameDone == voxel.ran = VoxelSystems

\* The in-range positions of the model that are set in the chunk.
SetPositions == { p \in InRangePositions : chunk_is_set(voxel.world.chunk, p) }

\* C38: after every frame of the Update chain VoxelWorld.dirty and
\* SurfaceBuffer.dirty are false, instances.len() is chunk.count(), and every
\* set voxel has exactly one instance, at its position + 0.5, whatever
\* batches were queued and whenever.
C38_InstancesMatchChunkAfterFrame ==
    (VoxelFrameDone \/ (voxel.ran = {} /\ voxel.frame > 0)) =>
        /\ ~voxel.world.dirty
        /\ ~voxel.surface.dirty
        /\ Len(voxel.surface.instances) = chunk_count(voxel.world.chunk)
        /\ chunk_count(voxel.world.chunk) = Cardinality(SetPositions)
        /\ \A p \in SetPositions :
              Cardinality({ i \in 1..Len(voxel.surface.instances) :
                              voxel.surface.instances[i].pos =
                                  [x2 |-> (2 * p.x) + 1, y2 |-> (2 * p.y) + 1,
                                   z2 |-> (2 * p.z) + 1] }) = 1

\* The second frame is done; it applied a batch with a Clear, and the chunk
\* holds one voxel where the first frame left two.
C38_Witness ==
    /\ VoxelFrameDone
    /\ voxel.frame = 1
    /\ voxel.drained = << EditOp_Clear(IVec3(0, 0, 0)) >>
    /\ voxel.metrics.edits_applied = 3
    /\ SetPositions = { IVec3(31, 31, 31) }
    /\ Len(voxel.billboards) = 1

\* ---------------------------------------------------------------------- C37
\* Every coordinate of p is in 0..31.
InRange(p) == \A c \in {p.x, p.y, p.z} : c >= 0 /\ c <= 31

\* What get(p) returns after the call last made on the chunk, if that call
\* wrote at p.
Written(last) ==
    IF last.op = "set" THEN Some([material |-> last.material, normal_index |-> 0])
    ELSE IF last.op = "set_with_normal"
         THEN Some([material |-> last.material, normal_index |-> last.normal_index])
    ELSE [some |-> FALSE]

\* C37: a set, set_with_normal or clear at a position out of range leaves
\* the chunk as it was and get there is None; at a position p in range,
\* get(p) is afterwards what was written (the material with normal_index 0
\* after set, None after clear), get at every other position is as before,
\* the queries change nothing and return the stored value, and count() is
\* the number of positions for which is_set holds.
C37_ChunkBoundsAndBookkeeping ==
    [][ (call.fn = "VoxelChunkSimple" /\ call'.ops = call.ops + 1) =>
          LET last == call'.last
              wrote == last.op \in {"set", "set_with_normal", "clear"}
          IN  /\ \A q \in ChunkPositions : ~InRange(q) => ~chunk_get(call'.data, q).some
              /\ (wrote /\ ~InRange(last.p)) => call'.data = call.data
              /\ (wrote /\ InRange(last.p)) =>
                    /\ chunk_get(call'.data, last.p) = Written(last)
                    /\ \A q \in ChunkPositions \ {last.p} :
                          chunk_get(call'.data, q) = chunk_get(call.data, q)
              /\ ~wrote => call'.data = call.data
              /\ last.op = "get" => last.result = chunk_get(call.data, last.p)
              /\ last.op = "is_set" => last.result = chunk_get(call.data, last.p).some
              /\ last.op = "count" =>
                    last.result = Cardinality({ q \in ChunkPositions :
                                                  chunk_is_set(call.data, q) })
              /\ chunk_count(call'.data) =
                    Cardinality({ q \in ChunkPositions : chunk_is_set(call'.data, q) }) ]_vars

\* set_with_normal at (0, 1, 0), then a set at (32, 0, 0), whose index
\* arithmetic would land on (0, 1, 0), then get at (0, 1, 0): what was first
\* written is returned.
C37_Witness ==
    /\ call.fn = "VoxelChunkSimple"
    /\ call.ops = 3
    /\ call.last = [op |-> "get", p |-> IVec3(0, 1, 0), result |-> Some(VoxelData(2, 7))]
    /\ chunk_count(call.data) = 1

\* ---------------------------------------------------------------------- C39
\* The places of items that report position p.
ReportsOf(items, p) == { i \in 1..Len(items) : items[i][1] = p }

\* C39: for every position p of the chunk pos_to_index(p) is the index
\* z*1024 + y*32 + x, in 0..32767 and different from the index of any other
\* position; the position iter() makes of that index is p; and iter()
\* reports each set voxel once, at the position where it was set and with
\* the data that was set there.
C39_PositionIndexRoundTrip ==
    call.fn = "round_trip" =>
        LET p == call.p
            q == call.q
            index == pos_to_index(p)
        IN  /\ index.some
            /\ index.v = (p.z * 1024) + (p.y * 32) + p.x
            /\ index.v \in 0..32767
            /\ p # q => index # pos_to_index(q)
            /\ IndexToPos(index.v) = p
            /\ (index.v % 32 = p.x) /\ ((index.v \div 32) % 32 = p.y)
                    /\ (index.v \div 1024 = p.z)
            /\ call.pc = "iter" =>
                  /\ Cardinality(ReportsOf(call.items, p)) = 1
                  /\ \A i \in ReportsOf(call.items, p) :
                        call.items[i][2] = [material |-> 1, normal_index |-> 0]
                  /\ p # q =>
                        /\ Cardinality(ReportsOf(call.items, q)) = 1
                        /\ \A i \in ReportsOf(call.items, q) :
                              call.items[i][2] = [material |-> 2, normal_index |-> 0]
                  /\ Len(call.items) = Cardinality({p, q})

\* iter() has run on a chunk with (1, 2, 3) and (31, 0, 5) set: it reports
\* (1, 2, 3) first and (31, 0, 5), whose index is higher, second.
C39_Witness ==
    /\ call.fn = "round_trip"
    /\ call.pc = "iter"
    /\ call.p = IVec3(31, 0, 5)
    /\ call.q = IVec3(1, 2, 3)
    /\ call.items = << << IVec3(1, 2, 3), VoxelData(2, 0) >>,
                       << IVec3(31, 0, 5), VoxelData(1, 0) >> >>

====
